---- MODULE Spec2Model ----
(***************************************************************************)
(* SwitchWrapper: the identifier codec (switchwrapper/helpers.py), the     *)
(* transmission-line exporter (switchwrapper/grid_to_switch.py) and the    *)
(* grid reconstructor (switchwrapper/switch_to_grid.py).                   *)
(*                                                                         *)
(* A Python str is a sequence of one-character strings, so that slicing,   *)
(* int(), f-strings and regular expressions are computed and not assumed.  *)
(* A Python dict (and the pandas Series built from it) is a sequence of    *)
(* [k, v] entries in insertion order with at most one entry per key.       *)
(***************************************************************************)
EXTENDS Integers, Sequences, FiniteSets, TLC

VARIABLES
    call,                        \* the operation applied last ("none" at start)
    switch_plant_ids,            \* argument of recover_plant_indices / split_...
    ref_last_original_plant_id,  \* argument of recover_plant_indices (None or int)
    plant_ids,                   \* argument of make_plant_indices
    switch_branch_ids,           \* argument of recover_branch_indices
    grid,                        \* the original Grid
    build_gen,                   \* generation build decisions (rows)
    build_tx,                    \* transmission build decisions (rows)
    build_storage_energy,        \* storage build decisions (rows)
    ret,                         \* what the operation returned (or raised)
    args,                        \* the other arguments of the operation applied
    fs                           \* the directories and files of the file system

vars == <<call, switch_plant_ids, ref_last_original_plant_id, plant_ids,
          switch_branch_ids, grid, build_gen, build_tx, build_storage_energy, ret,
          args, fs>>

(***************************************************************************)
(* Bounds of the model.                                                    *)
(***************************************************************************)
MaxTagId == 2
MaxLen == 3
MaxRef == 3
MaxPlantId == 11
MaxBranchId == 2
MaxTxRows == 2
MaxGenRows == 4
MaxVariables == 3
MaxTimepoints == 3
MaxPlants == 2

(***************************************************************************)
(* Python values.                                                          *)
(***************************************************************************)
\* Python's None, where the other values are non-negative integers.
None == 0 - 1

Max(a, b) == IF a >= b THEN a ELSE b

Digits == <<"0", "1", "2", "3", "4", "5", "6", "7", "8", "9">>

IsDigit(c) == \E d \in 1..Len(Digits) : Digits[d] = c

DigitVal(c) == (CHOOSE d \in 1..Len(Digits) : Digits[d] = c) - 1

\* str(n) / f"{n}" of a non-negative int: its decimal digits.
RECURSIVE FormatInt(_)
FormatInt(n) ==
    IF n < Len(Digits) THEN <<Digits[n + 1]>>
    ELSE FormatInt(n \div Len(Digits)) \o <<Digits[(n % Len(Digits)) + 1]>>

RECURSIVE DigitsValue(_)
DigitsValue(s) ==
    IF s = <<>> THEN 0
    ELSE DigitsValue(SubSeq(s, 1, Len(s) - 1)) * Len(Digits) + DigitVal(s[Len(s)])

\* int(s) of a plant or branch tag without its letters, a str of letters and
\* digits (no sign, blank or underscore): the value of a non-empty run of
\* digits, and None for the strings on which int() raises ValueError.
ParseInt(s) ==
    IF s # <<>> /\ \A j \in 1..Len(s) : IsDigit(s[j]) THEN DigitsValue(s) ELSE None

\* str.lstrip(), str.rstrip(): the blanks at an end are dropped.
RECURSIVE lstrip(_)
lstrip(s) == IF s # <<>> /\ s[1] = " " THEN lstrip(Tail(s)) ELSE s
RECURSIVE rstrip(_)
rstrip(s) ==
    IF s # <<>> /\ s[Len(s)] = " " THEN rstrip(SubSeq(s, 1, Len(s) - 1)) ELSE s
\* int(s): [ok, value], ok FALSE for ValueError. The blanks around the
\* number are dropped; a sign may lead; an underscore may stand between two
\* digits.
int(s) ==
    LET parsed(t) ==
            LET signed == t # <<>> /\ t[1] \in {"+", "-"}
                body == IF signed THEN Tail(t) ELSE t
                digits == SelectSeq(body, LAMBDA c : c # "_")
                literal == /\ body # <<>>
                           /\ \A k \in 1..Len(body) :
                                \/ IsDigit(body[k])
                                \/ /\ body[k] = "_"
                                   /\ 1 < k /\ k < Len(body)
                                   /\ IsDigit(body[k - 1]) /\ IsDigit(body[k + 1])
            IN  IF ~literal THEN [ok |-> FALSE, value |-> 0]
                ELSE [ok |-> TRUE,
                      value |-> IF signed /\ t[1] = "-" THEN 0 - DigitsValue(digits)
                                ELSE DigitsValue(digits)]
    IN  CHOOSE r \in {parsed(t) : t \in {rstrip(lstrip(s))}} : TRUE

\* s[1:], s[-1], s[-2:], s[:-2] of a str.
DropFirst(s) == SubSeq(s, 2, Len(s))
LastChar(s) == s[Len(s)]
LastTwo(s) == SubSeq(s, Max(1, Len(s) - 1), Len(s))
DropLastTwo(s) == SubSeq(s, 1, Len(s) - 2)

\* d[k] = v on a dict: the value is replaced in place when the key is there,
\* and the entry is appended otherwise.
DictHas(d, k) == \E j \in 1..Len(d) : d[j].k = k
DictSet(d, k, v) ==
    IF DictHas(d, k)
    THEN [j \in 1..Len(d) |-> IF d[j].k = k THEN [k |-> k, v |-> v] ELSE d[j]]
    ELSE Append(d, [k |-> k, v |-> v])
DictKeys(d) == {d[j].k : j \in 1..Len(d)}
DictGet(d, k) == d[CHOOSE j \in 1..Len(d) : d[j].k = k].v

(***************************************************************************)
(* helpers.py: the identifier codec.                                       *)
(***************************************************************************)
\* A make_plant_indices that numbers the plants by their row, not their id.
make_plant_indices_by_row(ids, storage_candidates) ==
    [existing |-> [j \in 1..Len(ids) |-> <<"g">> \o FormatInt(j)],
     expansion |-> [j \in 1..Len(ids) |-> (<<"g">> \o FormatInt(j)) \o <<"i">>],
     storage |-> [j \in 1..Len(storage_candidates) |->
                     <<"s">> \o FormatInt(storage_candidates[j]) \o <<"i">>]]

\* storage_candidates is the sorted list of the candidate buses (<<>> for None).
make_plant_indices(ids, storage_candidates) ==
    [existing |-> [j \in 1..Len(ids) |-> <<"g">> \o FormatInt(ids[j])],
     expansion |-> [j \in 1..Len(ids) |-> (<<"g">> \o FormatInt(ids[j])) \o <<"i">>],
     storage |-> [j \in 1..Len(storage_candidates) |->
                     <<"s">> \o FormatInt(storage_candidates[j]) \o <<"i">>]]

make_branch_indices(branch_ids, dc) ==
    [j \in 1..Len(branch_ids) |->
        FormatInt(branch_ids[j]) \o (IF dc THEN <<"d", "c">> ELSE <<"a", "c">>)]

\* The first loop of recover_plant_indices: the tags are read from the last
\* to the first, and the first one met that does not end in "i" sets
\* last_original_plant_id. status "unbound": the loop ended without a break.
RECURSIVE ScanLastOriginal(_, _)
ScanLastOriginal(tags, j) ==
    IF j = 0 THEN [status |-> "unbound", val |-> None]
    ELSE IF tags[j] = <<>> THEN [status |-> "IndexError", val |-> None]
    ELSE IF LastChar(tags[j]) # "i"
         THEN IF ParseInt(DropFirst(tags[j])) = None
              THEN [status |-> "ValueError", val |-> None]
              ELSE [status |-> "ok", val |-> ParseInt(DropFirst(tags[j]))]
    ELSE ScanLastOriginal(tags, j - 1)

\* last_original_plant_id as the second loop reads it.
last_original_plant_id(tags, ref) ==
    LET scan == ScanLastOriginal(tags, Len(tags)) IN
    IF ref = None \/ scan.status \in {"IndexError", "ValueError"} THEN scan
    ELSE IF scan.status = "unbound" THEN [status |-> "UnboundLocalError", val |-> None]
    ELSE [status |-> "ok", val |-> Max(scan.val, ref)]

\* The second loop of recover_plant_indices, from tag j on. acc holds the two
\* dicts, the counter and the assignments made so far, one per tag read.
RECURSIVE AssignPlantIds(_, _, _, _)
AssignPlantIds(tags, last, j, acc) ==
    IF j > Len(tags) THEN acc
    ELSE IF tags[j] = <<>> THEN [acc EXCEPT !.status = "IndexError"]
    ELSE IF LastChar(tags[j]) # "i"
         THEN IF ParseInt(DropFirst(tags[j])) = None
              THEN [acc EXCEPT !.status = "ValueError"]
              ELSE AssignPlantIds(tags, last, j + 1,
                     [acc EXCEPT
                        !.plant = DictSet(@, ParseInt(DropFirst(tags[j])), tags[j]),
                        !.writes = Append(@, [map |-> "plant",
                                              key |-> ParseInt(DropFirst(tags[j]))])])
    ELSE IF last.status # "ok" THEN [acc EXCEPT !.status = "UnboundLocalError"]
    ELSE IF tags[j][1] = "s"
         THEN AssignPlantIds(tags, last, j + 1,
                [acc EXCEPT
                   !.cnt = @ + 1,
                   !.storage = DictSet(@, last.val + acc.cnt + 1, tags[j]),
                   !.writes = Append(@, [map |-> "storage",
                                         key |-> last.val + acc.cnt + 1])])
    ELSE AssignPlantIds(tags, last, j + 1,
           [acc EXCEPT
              !.cnt = @ + 1,
              !.plant = DictSet(@, last.val + acc.cnt + 1, tags[j]),
              !.writes = Append(@, [map |-> "plant",
                                    key |-> last.val + acc.cnt + 1])])

Raised(status) == [status |-> status, plant |-> <<>>, storage |-> <<>>, writes |-> <<>>]

\* recover_plant_indices: [status, plant, storage, writes]. status is "ok" or
\* the exception raised; an exception returns no map. writes[j] is the
\* assignment plant_ids[key] = tag / storage_ids[key] = tag made for tag j.
recover_plant_indices(tags, ref) ==
    LET last == last_original_plant_id(tags, ref)
        out == AssignPlantIds(tags, last, 1,
                 [status |-> "ok", plant |-> <<>>, storage |-> <<>>,
                  cnt |-> 0, writes |-> <<>>])
    IN  IF last.status \in {"IndexError", "ValueError", "UnboundLocalError"}
        THEN Raised(last.status)
        ELSE IF out.status # "ok" THEN Raised(out.status)
        ELSE [status |-> "ok", plant |-> out.plant, storage |-> out.storage,
              writes |-> out.writes]

\* re.search(r"g\d+$", p): a "g", then digits up to the end of the string.
\* The pattern without its "$": r"g\d+".
SearchExisting_unanchored(p) ==
    \E a \in 1..Len(p) : p[a] = "g" /\ a < Len(p) /\ IsDigit(p[a + 1])

SearchExisting(p) ==
    \E a \in 1..Len(p) :
        p[a] = "g" /\ a < Len(p) /\ \A j \in (a + 1)..Len(p) : IsDigit(p[j])

\* re.search(r"g\d+i", p): a "g", then digits, then an "i", anywhere.
SearchExpansion(p) ==
    \E a \in 1..Len(p), b \in 1..Len(p) :
        p[a] = "g" /\ a + 1 < b /\ p[b] = "i" /\ \A j \in (a + 1)..(b - 1) : IsDigit(p[j])

RECURSIVE Filter(_, _, _)
Filter(tags, j, keep) ==
    IF j > Len(tags) THEN <<>>
    ELSE (IF keep[j] THEN <<tags[j]>> ELSE <<>>) \o Filter(tags, j + 1, keep)

split_plant_existing_expansion(tags) ==
    [existing |-> Filter(tags, 1, [j \in 1..Len(tags) |-> SearchExisting(tags[j])]),
     expansion |-> Filter(tags, 1, [j \in 1..Len(tags) |-> SearchExpansion(tags[j])])]

\* The loop of recover_branch_indices from tag j on.
RECURSIVE AssignBranchIds(_, _, _)
AssignBranchIds(tags, j, acc) ==
    IF j > Len(tags) THEN acc
    ELSE IF ParseInt(DropLastTwo(tags[j])) = None
         THEN [acc EXCEPT !.status = "ValueError"]
    ELSE IF LastTwo(tags[j]) = <<"a", "c">>
         THEN AssignBranchIds(tags, j + 1,
                [acc EXCEPT !.ac = DictSet(@, ParseInt(DropLastTwo(tags[j])), tags[j])])
    ELSE AssignBranchIds(tags, j + 1,
           [acc EXCEPT !.dc = DictSet(@, ParseInt(DropLastTwo(tags[j])), tags[j])])

\* recover_branch_indices: [status, ac, dc]; an exception returns no map.
recover_branch_indices(tags) ==
    LET out == AssignBranchIds(tags, 1, [status |-> "ok", ac |-> <<>>, dc |-> <<>>])
    IN  IF out.status # "ok" THEN [status |-> out.status, ac |-> <<>>, dc |-> <<>>]
        ELSE out

(***************************************************************************)
(* Numbers of the grid tables (rateA, x, Pmin, Pmax, cost coefficients)    *)
(* are rationals <<n, d>> in lowest terms with d > 0.                      *)
(***************************************************************************)
RECURSIVE Gcd(_, _)
Gcd(a, b) == IF b = 0 THEN a ELSE Gcd(b, a % b)
Abs(a) == IF a < 0 THEN 0 - a ELSE a
Rat(n, d) ==
    LET g == Gcd(Abs(n), Abs(d))
        sgn == IF d < 0 THEN 0 - 1 ELSE 1
    IN  <<sgn * (n \div g), sgn * (d \div g)>>
Q(n) == <<n, 1>>
RatAdd(a, b) == Rat(a[1] * b[2] + b[1] * a[2], a[2] * b[2])
RatSub(a, b) == Rat(a[1] * b[2] - b[1] * a[2], a[2] * b[2])
RatMul(a, b) == Rat(a[1] * b[1], a[2] * b[2])
\* a / b for b # 0.
RatDiv(a, b) == Rat(a[1] * b[2], a[2] * b[1])
RatPos(a) == a[1] > 0
RatZero(a) == a[1] = 0

(***************************************************************************)
(* grid_to_switch.py: the transmission-line table. A cell of the           *)
(* branch_id / TRANSMISSION_LINE column is [is_str, text]: the id of an AC *)
(* branch stays the int of the branch table's index, the id of a DC line   *)
(* is made a str. The columns trans_length_km and trans_efficiency         *)
(* (haversine of the bus coordinates, efficiency by voltage) are left out. *)
(***************************************************************************)
\* q is the quotient of an integer and a power of two: the double of the
\* cell is q itself.
RECURSIVE IsPowerOfTwo(_)
IsPowerOfTwo(d) == d = 1 \/ (d > 1 /\ d % 2 = 0 /\ IsPowerOfTwo(d \div 2))

\* DataFrame.round(2) on a float cell whose double is the nearest one to q:
\* the nearest multiple of 1/100. Where q lies halfway between two
\* multiples, a double that is q itself (12.125) goes to the even one; any
\* other double lies above or below q (1.015 is held as 1.01499...) and the
\* rounding follows it: up tells whether it is rounded upwards. Cells of
\* int and of str columns are not touched.
round2(q, up) ==
    LET m == 100 * q[1]
        f == m \div q[2]
        r == m % q[2]
        k == IF 2 * r < q[2] THEN f
             ELSE IF 2 * r > q[2] THEN f + 1
             ELSE IF IsPowerOfTwo(q[2]) THEN (IF f % 2 = 0 THEN f ELSE f + 1)
             ELSE IF up THEN f + 1 ELSE f
    IN  Rat(k, 100)

\* up[j]: the direction of row j at a tie of its double.
build_aclines(g, up) ==
    [j \in 1..Len(g.branch) |->
        [branch_id |-> [is_str |-> FALSE, text |-> FormatInt(g.branch[j].branch_id)],
         from_bus_id |-> g.branch[j].from_bus_id,
         to_bus_id |-> g.branch[j].to_bus_id,
         rateA |-> round2(g.branch[j].rateA, up[j])]]

build_dclines(g, up) ==
    [j \in 1..Len(g.dcline) |->
        [branch_id |-> [is_str |-> TRUE,
                        text |-> FormatInt(g.dcline[j].dcline_id) \o <<"d", "l">>],
         from_bus_id |-> g.dcline[j].from_bus_id,
         to_bus_id |-> g.dcline[j].to_bus_id,
         rateA |-> round2(g.dcline[j].Pmax, up[j])]]

build_transmission_lines(g, ac_up, dc_up) ==
    LET transmission_line == build_dclines(g, dc_up) \o build_aclines(g, ac_up) IN
    [j \in 1..Len(transmission_line) |->
        [TRANSMISSION_LINE |-> transmission_line[j].branch_id,
         trans_lz1 |-> transmission_line[j].from_bus_id,
         trans_lz2 |-> transmission_line[j].to_bus_id,
         existing_trans_cap |-> transmission_line[j].rateA]]

\* recover_branch_indices on a column of cells: ind[-2:] of an int cell
\* raises TypeError, after the cells before it have been read.
recover_branch_indices_of_cells(cells) ==
    IF \A j \in 1..Len(cells) : cells[j].is_str
    THEN recover_branch_indices([j \in 1..Len(cells) |-> cells[j].text])
    ELSE LET first == CHOOSE j \in 1..Len(cells) :
                        ~cells[j].is_str /\ \A i \in 1..(j - 1) : cells[i].is_str
             before == recover_branch_indices([j \in 1..(first - 1) |-> cells[j].text])
         IN  IF before.status # "ok" THEN before
             ELSE [status |-> "TypeError", ac |-> <<>>, dc |-> <<>>]

(***************************************************************************)
(* switch_to_grid.py: the grid reconstructor.                              *)
(*                                                                         *)
(* A Grid is [plant, gencost, branch, dcline, storage, obj]: four tables   *)
(* (sequences of rows in index order), the storage decisions taken up, and *)
(* obj, the identities of the table objects the grid holds. A build table  *)
(* is the sequence of its rows; the row at position j carries the label    *)
(* j - 1 of the RangeIndex match_variables gives it.                       *)
(***************************************************************************)
\* tuple(sorted(t)) of a pair of bus ids.
SortedPair(a, b) == IF a <= b THEN <<a, b>> ELSE <<b, a>>
BusPair(row) == SortedPair(row.from_bus_id, row.to_bus_id)

RECURSIVE RatSum(_, _)
RatSum(f, S) ==
    IF S = {} THEN Q(0)
    ELSE LET j == CHOOSE j \in S : TRUE IN RatAdd(f[j], RatSum(f, S \ {j}))

\* The key under which dict d holds the value v (ac_id_unmapping).
DictKeyOf(d, v) == d[CHOOSE j \in 1..Len(d) : d[j].v = v].k
DictHasValue(d, v) == \E j \in 1..Len(d) : d[j].v = v

\* The upgrade rows selected without the condition on the year.
UpgradeRows_any_year(tx, ids, year) ==
    {j \in 1..Len(tx) : DictHasValue(ids, tx[j].tx_id) /\ tx[j].capacity > 0}

\* The rows j of build_tx kept by
\* query("year == @year and tx_id in @ids and capacity > 0").
UpgradeRows(tx, ids, year) ==
    {j \in 1..Len(tx) :
        tx[j].year = year /\ DictHasValue(ids, tx[j].tx_id) /\ tx[j].capacity > 0}

BranchIds(g) == {g.branch[j].branch_id : j \in 1..Len(g.branch)}
BranchRowOf(g, id) == g.branch[CHOOSE j \in 1..Len(g.branch) : g.branch[j].branch_id = id]

\* The rateA of one branch of a bus pair, taken for the capacity of the pair.
ToFromCapacity_single_branch(g, pair) ==
    g.branch[CHOOSE j \in 1..Len(g.branch) : BusPair(g.branch[j]) = pair].rateA

\* to_from_capacity: the total rateA of the branches between a bus pair.
ToFromCapacity(g, pair) ==
    RatSum([j \in 1..Len(g.branch) |-> g.branch[j].rateA],
           {j \in 1..Len(g.branch) : BusPair(g.branch[j]) = pair})

\* to_from_ac_upgrade_ratios: 1 + upgrades / capacity of the bus pair, and 1
\* where the pair has no upgrade. rows are the upgrade rows of build_tx left
\* after those of the branches with rateA = 0 are dropped.
UpgradeRatio(g, tx, ac, rows, pair) ==
    LET here == {j \in rows : BusPair(BranchRowOf(g, DictKeyOf(ac, tx[j].tx_id))) = pair}
    IN  IF here = {} THEN Q(1)
        ELSE RatAdd(Q(1), RatDiv(RatSum([j \in 1..Len(tx) |-> Q(tx[j].capacity)], here),
                                 ToFromCapacity(g, pair)))

\* The DC upgrade of the DC line with index d: the capacity of the row of
\* dc_upgrades labelled d (reindex(grid.dcline.index)), 0 when there is none.
DcUpgrade(tx, rows, d) ==
    IF d + 1 \in rows THEN Q(tx[d + 1].capacity) ELSE Q(0)

\* add_tx_upgrades_to_grid with the impedance updates of every branch
\* written back, those of the branches with rateA = 0 included.
add_tx_upgrades_to_grid_every_impedance(g, tx, year) ==
    LET ids == recover_branch_indices([j \in 1..Len(tx) |-> tx[j].tx_id])
        ac_rows == UpgradeRows(tx, ids.ac, year)
        rated == {j \in ac_rows :
                    RatPos(BranchRowOf(g, DictKeyOf(ids.ac, tx[j].tx_id)).rateA)}
        ratio(j) == UpgradeRatio(g, tx, ids.ac, rated, BusPair(g.branch[j]))
    IN  [status |-> "ok",
         grid |-> [g EXCEPT
            !.branch = [j \in 1..Len(g.branch) |->
                [g.branch[j] EXCEPT !.rateA = RatMul(@, ratio(j)),
                                    !.x = RatDiv(@, ratio(j))]]]]

\* add_tx_upgrades_to_grid: [status, grid]. The branch and dcline tables are
\* changed in place (the table objects stay the same).
add_tx_upgrades_to_grid(g, tx, year) ==
    LET ids == recover_branch_indices([j \in 1..Len(tx) |-> tx[j].tx_id])
        ac_rows == UpgradeRows(tx, ids.ac, year)
        dc_rows == UpgradeRows(tx, ids.dc, year)
        rated == {j \in ac_rows :
                    RatPos(BranchRowOf(g, DictKeyOf(ids.ac, tx[j].tx_id)).rateA)}
        ratio(j) == UpgradeRatio(g, tx, ids.ac, rated, BusPair(g.branch[j]))
    IN  IF ids.status # "ok" THEN [status |-> ids.status, grid |-> g]
        ELSE IF \E j \in ac_rows : DictKeyOf(ids.ac, tx[j].tx_id) \notin BranchIds(g)
             THEN [status |-> "IndexingError", grid |-> g]
        ELSE [status |-> "ok",
              grid |-> [g EXCEPT
                !.branch = [j \in 1..Len(g.branch) |->
                    [g.branch[j] EXCEPT
                        !.rateA = RatMul(@, ratio(j)),
                        !.x = IF RatPos(RatMul(g.branch[j].rateA, ratio(j)))
                              THEN RatDiv(@, ratio(j)) ELSE @]],
                !.dcline = [j \in 1..Len(g.dcline) |->
                    [g.dcline[j] EXCEPT
                        !.Pmax = RatAdd(@, DcUpgrade(tx, dc_rows, g.dcline[j].dcline_id)),
                        !.Pmin = RatSub(@, DcUpgrade(tx, dc_rows, g.dcline[j].dcline_id))]]]]

\* The capacities of the rows of build_gen kept by
\* query("gen_id in @plant_ids and year == @year"), in row order.
RECURSIVE NewCapacity(_, _, _, _)
NewCapacity(bg, ids, year, j) ==
    IF j > Len(bg) THEN <<>>
    ELSE (IF bg[j].year = year /\ DictHasValue(ids, bg[j].gen_id)
          THEN <<Q(bg[j].capacity)>> ELSE <<>>) \o NewCapacity(bg, ids, year, j + 1)

\* plant_ids.iloc[num_original_plants:], as the list of its ids.
NewPlantIds(ids, n) ==
    IF Len(ids) <= n THEN <<>> ELSE [j \in 1..(Len(ids) - n) |-> ids[n + j].k]

\* Pmin / Pmax of plant row i, with 0 for inf and NaN.
PminRatio(g, i) ==
    IF RatZero(g.plant[i].Pmax) THEN Q(0) ELSE RatDiv(g.plant[i].Pmin, g.plant[i].Pmax)

\* new_capacity / Pmax at position i, with 0 for inf and NaN (a position past
\* the end of new_capacity holds NaN).
CapacityRatio(g, caps, i) ==
    IF i > Len(caps) \/ RatZero(g.plant[i].Pmax) THEN Q(0)
    ELSE RatDiv(caps[i], g.plant[i].Pmax)

\* The rows of new_plants and new_gencost at position i.
NewPlantRow(g, caps, new_ids, i) ==
    [g.plant[i] EXCEPT !.plant_id = new_ids[i],
                       !.Pmin = RatMul(caps[i], PminRatio(g, i)),
                       !.Pmax = caps[i]]
NewGencostRow(g, caps, new_ids, i) ==
    LET r == CapacityRatio(g, caps, i)
    IN  [g.gencost.before[i] EXCEPT
            !.plant_id = new_ids[i],
            !.c0 = RatMul(@, r),
            !.c2 = IF RatZero(r) THEN @ ELSE RatDiv(@, r)]

\* The positions kept by query("Pmax > 0"), in order (NaN is not > 0).
RECURSIVE UpgradedPositions(_, _, _)
UpgradedPositions(caps, n, i) ==
    IF i > n THEN <<>>
    ELSE (IF i <= Len(caps) /\ RatPos(caps[i]) THEN <<i>> ELSE <<>>)
         \o UpgradedPositions(caps, n, i + 1)

\* add_gen_upgrades_to_grid: [status, grid]. fresh and fresh + 1 are the
\* identities of the two tables DataFrame.append creates.
add_gen_upgrades_to_grid(g, bg, year, fresh) ==
    LET ids == recover_plant_indices([j \in 1..Len(bg) |-> bg[j].gen_id], None)
        n == Len(g.plant)
        new_ids == NewPlantIds(ids.plant, n)
        caps == NewCapacity(bg, ids.plant, year, 1)
        kept == UpgradedPositions(caps, n, 1)
        before == g.gencost.before \o
                  [j \in 1..Len(kept) |-> NewGencostRow(g, caps, new_ids, kept[j])]
    IN  IF ids.status # "ok" THEN [status |-> ids.status, grid |-> g]
        ELSE IF Len(new_ids) # n THEN [status |-> "ValueError", grid |-> g]
        ELSE [status |-> "ok",
              grid |-> [g EXCEPT
                !.plant = @ \o [j \in 1..Len(kept) |-> NewPlantRow(g, caps, new_ids, kept[j])],
                !.gencost = [before |-> before, after |-> before],
                !.obj = [@ EXCEPT !.plant = fresh, !.before = fresh + 1,
                                  !.after = fresh + 1]]]

\* add_storage_upgrades_to_grid is not part of this source tree; by the
\* description of the reconstructor it takes up the storage decisions of
\* the year and leaves the plant, branch and DC line tables alone.
add_storage_upgrades_to_grid(g, bg, bse, year) ==
    [status |-> "ok",
     grid |-> [g EXCEPT !.storage =
                 SelectSeq(bse, LAMBDA r : r.year = year /\ r.capacity > 0)]]

\* copy.deepcopy(grid): the same values in new table objects; sharing inside
\* the grid is kept.
deepcopy(g, fresh) ==
    [g EXCEPT !.obj = [plant |-> fresh, branch |-> fresh + 1, dcline |-> fresh + 2,
                       before |-> fresh + 3,
                       after |-> IF g.obj.after = g.obj.before THEN fresh + 3
                                 ELSE fresh + 4]]

\* One pass of the loop of create_upgraded_grids: [status, grid]. The three
\* calls are made in sequence, each on the grid the one before has left; an
\* exception in one of them ends the pass.
AfterGen(with_gen, bg, bse, year) ==
    IF with_gen.status # "ok" THEN with_gen
    ELSE add_storage_upgrades_to_grid(with_gen.grid, bg, bse, year)
AfterTx(with_tx, bg, bse, year, fresh) ==
    IF with_tx.status # "ok" THEN with_tx
    ELSE CHOOSE done \in
            {AfterGen(with_gen, bg, bse, year) :
                with_gen \in {add_gen_upgrades_to_grid(with_tx.grid, bg, year, fresh)}} :
            TRUE
UpgradedGrid(g, bg, tx, bse, year, fresh) ==
    CHOOSE done \in
        {AfterTx(with_tx, bg, bse, year, fresh + 5) :
            with_tx \in {add_tx_upgrades_to_grid(
                            [deepcopy(g, fresh) EXCEPT !.data_loc = None], tx, year)}} :
        TRUE

\* build_tx.year.unique(): the years in order of first appearance.
RECURSIVE UniqueYears(_, _)
UniqueYears(tx, j) ==
    IF j > Len(tx) THEN <<>>
    ELSE (IF \E i \in 1..(j - 1) : tx[i].year = tx[j].year THEN <<>> ELSE <<tx[j].year>>)
         \o UniqueYears(tx, j + 1)

(***************************************************************************)
(* Inputs of the codec.                                                    *)
(***************************************************************************)
SeqsUpTo(S, n) == UNION {[1..m -> S] : m \in 0..n}

ExistingTag(n) == <<"g">> \o FormatInt(n)
ExpansionTag(n) == (<<"g">> \o FormatInt(n)) \o <<"i">>
StorageTag(b) == (<<"s">> \o FormatInt(b)) \o <<"i">>

\* The ids the tags are made of: the small ids and one id of two digits.
TagIds == (0..MaxTagId) \cup {MaxPlantId}

PatternTags ==
    {ExistingTag(n) : n \in TagIds} \cup {ExpansionTag(n) : n \in TagIds}
        \cup {StorageTag(n) : n \in TagIds}

\* Tags of none of the three patterns: "x1", "x1i", "gx", "s1".
OtherTags == {<<"x", "1">>, <<"x", "1", "i">>, <<"g", "x">>, <<"s", "1">>}

\* No directory and no file.
NoFiles == [dirs |-> {}, files |-> {}]

\* The tables of the reconstructor, unused by the codec.
NoTables ==
    /\ grid = <<>>
    /\ build_gen = <<>>
    /\ build_tx = <<>>
    /\ build_storage_energy = <<>>

(***************************************************************************)
(* The operations of the codec, applied to the arguments.                  *)
(***************************************************************************)
CallRecoverPlantIndices ==
    /\ call \in {"none", "make_plant_indices"}
    /\ call' = "recover_plant_indices"
    /\ ret' = recover_plant_indices(switch_plant_ids, ref_last_original_plant_id)
    /\ UNCHANGED <<switch_plant_ids, ref_last_original_plant_id, plant_ids,
                   switch_branch_ids, grid, build_gen, build_tx, build_storage_energy, args, fs>>

CallSplitPlantExistingExpansion ==
    /\ call = "none"
    /\ call' = "split_plant_existing_expansion"
    /\ ret' = split_plant_existing_expansion(switch_plant_ids)
    /\ UNCHANGED <<switch_plant_ids, ref_last_original_plant_id, plant_ids,
                   switch_branch_ids, grid, build_gen, build_tx, build_storage_energy, args, fs>>

\* make_plant_indices(plant_ids)["existing"], handed to recover_plant_indices.
CallMakePlantIndices ==
    /\ call = "none"
    /\ call' = "make_plant_indices"
    /\ switch_plant_ids' = make_plant_indices(plant_ids, <<>>).existing
    /\ ret' = make_plant_indices(plant_ids, <<>>)
    /\ UNCHANGED <<ref_last_original_plant_id, plant_ids, switch_branch_ids, grid,
                   build_gen, build_tx, build_storage_energy, args, fs>>

CallRecoverBranchIndices ==
    /\ call = "none"
    /\ call' = "recover_branch_indices"
    /\ ret' = recover_branch_indices(switch_branch_ids)
    /\ UNCHANGED <<switch_plant_ids, ref_last_original_plant_id, plant_ids,
                   switch_branch_ids, grid, build_gen, build_tx, build_storage_energy, args, fs>>

\* recover_plant_indices and split_plant_existing_expansion on any tag list,
\* without a reference.
InitPlantCodec ==
    /\ call = "none"
    /\ switch_plant_ids \in SeqsUpTo(PatternTags \cup OtherTags, MaxLen)
    /\ ref_last_original_plant_id = None
    /\ plant_ids = <<>>
    /\ switch_branch_ids = <<>>
    /\ NoTables
    /\ ret = <<>>
    /\ fs = NoFiles
    /\ args = <<>>
NextPlantCodec == CallRecoverPlantIndices \/ CallSplitPlantExistingExpansion
SpecPlantCodec == InitPlantCodec /\ [][NextPlantCodec]_vars

\* recover_plant_indices on tags of the three patterns, with and without a
\* reference.
InitPlantRef ==
    /\ call = "none"
    /\ switch_plant_ids \in SeqsUpTo(PatternTags, MaxLen)
    /\ ref_last_original_plant_id \in {None} \cup (0..MaxRef)
    /\ plant_ids = <<>>
    /\ switch_branch_ids = <<>>
    /\ NoTables
    /\ ret = <<>>
    /\ fs = NoFiles
    /\ args = <<>>
NextPlantRef == CallRecoverPlantIndices
SpecPlantRef == InitPlantRef /\ [][NextPlantRef]_vars

\* make_plant_indices, then recover_plant_indices on its existing tags.
Distinct(s) == \A i, j \in 1..Len(s) : i # j => s[i] # s[j]
InitRoundTrip ==
    /\ call = "none"
    /\ switch_plant_ids = <<>>
    /\ ref_last_original_plant_id = None
    /\ plant_ids \in {s \in SeqsUpTo(0..MaxPlantId, MaxLen) : Distinct(s)}
    /\ switch_branch_ids = <<>>
    /\ NoTables
    /\ ret = <<>>
    /\ fs = NoFiles
    /\ args = <<>>
RecoverMadeIndices == call = "make_plant_indices" /\ CallRecoverPlantIndices
NextRoundTrip == CallMakePlantIndices \/ RecoverMadeIndices
SpecRoundTrip == InitRoundTrip /\ [][NextRoundTrip]_vars

\* recover_branch_indices on any list of branch tags.
AcTag(n) == FormatInt(n) \o <<"a", "c">>
DcTag(n) == FormatInt(n) \o <<"d", "c">>
BranchIdPool == (0..MaxBranchId) \cup {MaxPlantId}
\* Tags that end in neither "ac" nor "dc": "1dl", "11", "101".
OtherBranchTags == {<<"1", "d", "l">>, <<"1", "1">>, <<"1", "0", "1">>}
InitBranchCodec ==
    /\ call = "none"
    /\ switch_plant_ids = <<>>
    /\ ref_last_original_plant_id = None
    /\ plant_ids = <<>>
    /\ switch_branch_ids \in
        SeqsUpTo({AcTag(n) : n \in BranchIdPool} \cup {DcTag(n) : n \in BranchIdPool}
                    \cup OtherBranchTags, MaxLen)
    /\ NoTables
    /\ ret = <<>>
    /\ fs = NoFiles
    /\ args = <<>>
NextBranchCodec == CallRecoverBranchIndices
SpecBranchCodec == InitBranchCodec /\ [][NextBranchCodec]_vars

\* build_transmission_lines on a grid, then recover_branch_indices on the
\* TRANSMISSION_LINE column of the table.
CallBuildTransmissionLines ==
    /\ call = "none"
    /\ call' = "build_transmission_lines"
    /\ \E ac_up \in [1..Len(grid.branch) -> BOOLEAN],
          dc_up \in [1..Len(grid.dcline) -> BOOLEAN] :
            ret' = build_transmission_lines(grid, ac_up, dc_up)
    /\ UNCHANGED <<switch_plant_ids, ref_last_original_plant_id, plant_ids,
                   switch_branch_ids, grid, build_gen, build_tx, build_storage_energy, args, fs>>

RecoverTransmissionLines ==
    /\ call = "build_transmission_lines"
    /\ call' = "recover_transmission_lines"
    /\ ret' = recover_branch_indices_of_cells(
                [j \in 1..Len(ret) |-> ret[j].TRANSMISSION_LINE])
    /\ UNCHANGED <<switch_plant_ids, ref_last_original_plant_id, plant_ids,
                   switch_branch_ids, grid, build_gen, build_tx, build_storage_energy, args, fs>>

\* The grids of the exporter: AC branches and DC lines of distinct ids. The
\* rateA of branch id is 100 + 0.155 * id MW (100, 100.155, 100.31,
\* 101.705: halfway between two multiples of 1/100 for the odd ids), the
\* Pmax of DC line id in the exporter 50 + 0.125 * id MW (50.125, a double,
\* for id 1; 50.004 * id for the grids of another origin).
ExportBranch(id) ==
    [branch_id |-> id, from_bus_id |-> 1, to_bus_id |-> 2,
     rateA |-> Rat(100000 + 155 * id, 1000), x |-> Q(1)]
ExportDcline(id) ==
    [dcline_id |-> id, from_bus_id |-> 1, to_bus_id |-> 2, Pmin |-> Q(0), Pmax |-> Q(100)]
InitExport ==
    /\ call = "none"
    /\ switch_plant_ids = <<>>
    /\ ref_last_original_plant_id = None
    /\ plant_ids = <<>>
    /\ switch_branch_ids = <<>>
    /\ \E acs \in {s \in SeqsUpTo(BranchIdPool, MaxLen) : Distinct(s)},
          dcs \in {s \in SeqsUpTo(0..MaxBranchId, MaxLen) : Distinct(s)} :
            grid = [plant |-> <<>>, gencost |-> <<>>,
                    branch |-> [j \in 1..Len(acs) |-> ExportBranch(acs[j])],
                    dcline |-> [j \in 1..Len(dcs) |->
                                [ExportDcline(dcs[j]) EXCEPT
                                    !.Pmax = Rat(50000 + 4 * dcs[j], 1000)]]]
    /\ build_gen = <<>>
    /\ build_tx = <<>>
    /\ build_storage_energy = <<>>
    /\ ret = <<>>
    /\ fs = NoFiles
    /\ args = <<>>
NextExport == CallBuildTransmissionLines \/ RecoverTransmissionLines
SpecExport == InitExport /\ [][NextExport]_vars

(***************************************************************************)
(* create_upgraded_grids, one pass of its loop at a time. ret holds the    *)
(* years still to do, the dict all_grids built so far and the next unused  *)
(* object identity; an exception in a pass ends the call with no dict.     *)
(***************************************************************************)
CallCreateUpgradedGrids ==
    /\ call = "none"
    /\ call' = "create_upgraded_grids"
    /\ ret' = [status |-> "running", years |-> UniqueYears(build_tx, 1),
               all_grids |-> <<>>, fresh |-> 6]
    /\ UNCHANGED <<switch_plant_ids, ref_last_original_plant_id, plant_ids,
                   switch_branch_ids, grid, build_gen, build_tx, build_storage_energy, args, fs>>

UpgradeYear ==
    /\ call = "create_upgraded_grids"
    /\ ret.status = "running"
    /\ ret.years # <<>>
    /\ \E done \in {UpgradedGrid(grid, build_gen, build_tx, build_storage_energy,
                                  Head(ret.years), ret.fresh)} :
          ret' = IF done.status = "ok"
                 THEN [ret EXCEPT !.years = Tail(@),
                                  !.all_grids = DictSet(@, Head(ret.years), done.grid),
                                  !.fresh = @ + 7]
                 ELSE [ret EXCEPT !.status = done.status, !.years = <<>>,
                                  !.all_grids = <<>>]
    /\ UNCHANGED <<call, switch_plant_ids, ref_last_original_plant_id, plant_ids,
                   switch_branch_ids, grid, build_gen, build_tx, build_storage_energy, args, fs>>

ReturnAllGrids ==
    /\ call = "create_upgraded_grids"
    /\ ret.status = "running"
    /\ ret.years = <<>>
    /\ ret' = [ret EXCEPT !.status = "ok"]
    /\ UNCHANGED <<call, switch_plant_ids, ref_last_original_plant_id, plant_ids,
                   switch_branch_ids, grid, build_gen, build_tx, build_storage_energy, args, fs>>

\* The grids of the reconstructor: one or two plants, the two sets of
\* parallel lines {11, 15} and {12, 16} of the tests (branch 15 has
\* rateA = 0), and one or two DC lines.
GridPlant(id) ==
    [plant_id |-> id, bus_id |-> id, type |-> "coal",
     Pmin |-> Q(10 * id), Pmax |-> Q(20 * id)]
GridGencost(id) ==
    [plant_id |-> id, c0 |-> Q(4), c1 |-> Q(3), c2 |-> Q(2)]
GridBranch(id, from, to, rateA, x) ==
    [branch_id |-> id, from_bus_id |-> from, to_bus_id |-> to,
     rateA |-> Q(rateA), x |-> Rat(x, 10)]
GridBranches ==
    <<GridBranch(11, 1, 2, 100, 1), GridBranch(12, 2, 3, 200, 2),
      GridBranch(15, 2, 1, 0, 5), GridBranch(16, 2, 3, 100, 6)>>
GridOf(plants, dcs) ==
    [plant |-> [j \in 1..plants |-> GridPlant(j)],
     gencost |-> [before |-> [j \in 1..plants |-> GridGencost(j)],
                  after |-> [j \in 1..plants |-> GridGencost(j)]],
     branch |-> GridBranches,
     dcline |-> [j \in 1..Len(dcs) |-> ExportDcline(dcs[j])],
     storage |-> <<>>,
     data_loc |-> 0,
     obj |-> [plant |-> 1, branch |-> 2, dcline |-> 3, before |-> 4, after |-> 5]]

\* The build tables: rows of a year, a tag and a capacity, with no two rows
\* for the same tag and year (the keys of the solution are distinct).
Years == {2030, 2040}
TxRows ==
    {[year |-> y, tx_id |-> t, capacity |-> c] :
        y \in Years, t \in {AcTag(11), AcTag(15), DcTag(0), DcTag(1)}, c \in {0, 100}}
GenRows ==
    {[year |-> 2019, gen_id |-> ExistingTag(p), capacity |-> 20 * p] : p \in 1..2}
        \cup {[year |-> y, gen_id |-> ExpansionTag(p), capacity |-> c] :
                y \in Years, p \in 1..2, c \in {0, 50}}
DistinctTx(t) ==
    \A i, j \in 1..Len(t) :
        (t[i].year = t[j].year /\ t[i].tx_id = t[j].tx_id) => i = j
DistinctGen(t) ==
    \A i, j \in 1..Len(t) :
        (t[i].year = t[j].year /\ t[i].gen_id = t[j].gen_id) => i = j
RECURSIVE TxTablesOfLen(_)
TxTablesOfLen(n) ==
    IF n = 0 THEN {<<>>}
    ELSE {t \in {Append(p[1], p[2]) : p \in TxTablesOfLen(n - 1) \X TxRows} :
            DistinctTx(t)}
RECURSIVE GenTablesOfLen(_)
GenTablesOfLen(n) ==
    IF n = 0 THEN {<<>>}
    ELSE {t \in {Append(p[1], p[2]) : p \in GenTablesOfLen(n - 1) \X GenRows} :
            DistinctGen(t)}
TxTables == UNION {TxTablesOfLen(n) : n \in 1..MaxTxRows}
GenTables == UNION {GenTablesOfLen(n) : n \in 1..MaxGenRows}

\* Transmission decisions of any shape on a grid whose generation table
\* decodes.
InitGridTx ==
    /\ call = "none"
    /\ switch_plant_ids = <<>>
    /\ ref_last_original_plant_id = None
    /\ plant_ids = <<>>
    /\ switch_branch_ids = <<>>
    /\ grid \in {GridOf(1, dcs) : dcs \in {<<0>>, <<1>>, <<0, 1>>, <<1, 0>>}}
    /\ build_gen = <<[year |-> 2019, gen_id |-> ExistingTag(1), capacity |-> 20],
                     [year |-> 2030, gen_id |-> ExpansionTag(1), capacity |-> 50]>>
    /\ build_tx \in TxTables
    /\ build_storage_energy = <<>>
    /\ ret = <<>>
    /\ fs = NoFiles
    /\ args = <<>>
NextGridTx == CallCreateUpgradedGrids \/ UpgradeYear \/ ReturnAllGrids
SpecGridTx == InitGridTx /\ [][NextGridTx]_vars

\* Generation decisions of any shape, with transmission decisions for one
\* or for both years and with or without a storage decision.
InitGridGen ==
    /\ call = "none"
    /\ switch_plant_ids = <<>>
    /\ ref_last_original_plant_id = None
    /\ plant_ids = <<>>
    /\ switch_branch_ids = <<>>
    /\ grid \in {GridOf(n, <<0>>) : n \in 1..2}
    /\ build_gen \in GenTables
    /\ build_tx \in
        {<<[year |-> 2030, tx_id |-> AcTag(11), capacity |-> 100]>>,
         <<[year |-> 2030, tx_id |-> AcTag(11), capacity |-> 100],
           [year |-> 2040, tx_id |-> DcTag(0), capacity |-> 100]>>}
    /\ build_storage_energy \in
        {<<>>, <<[year |-> 2040, s_id |-> StorageTag(1), capacity |-> 5]>>}
    /\ ret = <<>>
    /\ fs = NoFiles
    /\ args = <<>>
NextGridGen == CallCreateUpgradedGrids \/ UpgradeYear \/ ReturnAllGrids
SpecGridGen == InitGridGen /\ [][NextGridGen]_vars

(***************************************************************************)
(* The tag patterns of the specification: g<digits> (existing plant),      *)
(* g<digits>i (expansion), s<digits>i (storage).                           *)
(***************************************************************************)
IsExistingTag(t) ==
    Len(t) >= 2 /\ t[1] = "g" /\ \A j \in 2..Len(t) : IsDigit(t[j])
IsExpansionTag(t) ==
    Len(t) >= 3 /\ t[1] = "g" /\ t[Len(t)] = "i" /\ \A j \in 2..(Len(t) - 1) : IsDigit(t[j])
IsStorageTag(t) ==
    Len(t) >= 3 /\ t[1] = "s" /\ t[Len(t)] = "i" /\ \A j \in 2..(Len(t) - 1) : IsDigit(t[j])
IsHypotheticalTag(t) == IsExpansionTag(t) \/ IsStorageTag(t)
IsPatternTag(t) == IsExistingTag(t) \/ IsHypotheticalTag(t)
AllPatternTags(tags) == \A j \in 1..Len(tags) : IsPatternTag(tags[j])
HasExistingTag(tags) == \E j \in 1..Len(tags) : IsExistingTag(tags[j])

\* The id n of the existing tag g<n>.
IdOfExistingTag(t) == CHOOSE n \in 0..MaxPlantId : ExistingTag(n) = t
ExistingIds(tags) == {IdOfExistingTag(tags[j]) : j \in {i \in 1..Len(tags) : IsExistingTag(tags[i])}}
MaxExistingId(tags) == CHOOSE m \in ExistingIds(tags) : \A n \in ExistingIds(tags) : n <= m
\* The id of the existing tag that stands last in the list.
LastExistingId(tags) ==
    IdOfExistingTag(tags[CHOOSE j \in 1..Len(tags) :
        IsExistingTag(tags[j]) /\ \A i \in (j + 1)..Len(tags) : ~IsExistingTag(tags[i])])
\* Tag j is the k-th hypothetical tag of the list.
HypotheticalRank(tags, j) == Cardinality({i \in 1..j : IsHypotheticalTag(tags[i])})
MapsTo(d, k, v) == DictHas(d, k) /\ DictGet(d, k) = v

Recovered == call = "recover_plant_indices"

\* C1: recover_plant_indices, on a list of pattern tags with an existing tag
\* in it and in whatever order, gives the k-th hypothetical tag the id
\* max(existing ids) + k, expansion tags in the plant map and storage tags in
\* the storage map.
C1_HypotheticalIdsFollowMaxExisting ==
    (Recovered /\ ref_last_original_plant_id = None
        /\ AllPatternTags(switch_plant_ids) /\ HasExistingTag(switch_plant_ids)) =>
        /\ ret.status = "ok"
        /\ \A j \in 1..Len(switch_plant_ids) :
            /\ IsExpansionTag(switch_plant_ids[j]) =>
                MapsTo(ret.plant,
                       MaxExistingId(switch_plant_ids) + HypotheticalRank(switch_plant_ids, j),
                       switch_plant_ids[j])
            /\ IsStorageTag(switch_plant_ids[j]) =>
                MapsTo(ret.storage,
                       MaxExistingId(switch_plant_ids) + HypotheticalRank(switch_plant_ids, j),
                       switch_plant_ids[j])

\* C2: recover_plant_indices decodes a list of pairwise distinct pattern tags
\* uniquely: it returns, no two tags get the same id, the two maps hold one
\* entry per tag, their keys are disjoint and no synthesized id is the id of
\* an existing plant of the list. Stated for the lists that hold an existing
\* tag, on which a last original id is computed.
C2_DecodesUniquely ==
    (Recovered /\ ref_last_original_plant_id = None /\ AllPatternTags(switch_plant_ids)
        /\ Distinct(switch_plant_ids) /\ HasExistingTag(switch_plant_ids)) =>
        /\ ret.status = "ok"
        /\ \A i, j \in 1..Len(switch_plant_ids) :
            i # j => ret.writes[i].key # ret.writes[j].key
        /\ Len(ret.plant) + Len(ret.storage) = Len(switch_plant_ids)
        /\ DictKeys(ret.plant) \cap DictKeys(ret.storage) = {}
        /\ \A j \in 1..Len(switch_plant_ids) :
            IsHypotheticalTag(switch_plant_ids[j]) =>
                ret.writes[j].key \notin ExistingIds(switch_plant_ids)

\* C3: recover_plant_indices(make_plant_indices(ids)["existing"]) is the plant
\* map {id: "g<id>"} of the ids of the list, in their order, nothing added and
\* nothing lost, and an empty storage map.
C3_RoundTripExisting ==
    Recovered =>
        /\ ret.status = "ok"
        /\ ret.storage = <<>>
        /\ ret.plant = [j \in 1..Len(plant_ids) |->
                          [k |-> plant_ids[j], v |-> ExistingTag(plant_ids[j])]]
        /\ DictKeys(ret.plant) = {plant_ids[j] : j \in 1..Len(plant_ids)}

\* C3's case: ids of one and of two digits, not in ascending order.
C3_Witness ==
    /\ Recovered
    /\ Len(plant_ids) >= 2
    /\ plant_ids[1] >= Len(Digits)
    /\ plant_ids[2] < plant_ids[1]
    /\ Len(ret.plant) = Len(plant_ids)

\* C4: recover_plant_indices raises on every list that holds a tag of none of
\* the three patterns: it returns no pair of maps for it.
C4_MalformedTagRaises ==
    (Recovered /\ ~AllPatternTags(switch_plant_ids)) => ret.status # "ok"

\* C5: with a reference r and an existing tag in the list, the numbering base
\* is max(last original id of the list, r): in the returned maps the k-th
\* hypothetical tag stands under base + k in the map of its kind and an
\* existing tag under its own id; a reference not above the computed id changes
\* nothing in the result, and a larger one shifts every synthesized id by the
\* difference and no existing id.
C5_ReferenceFloor ==
    (Recovered /\ ref_last_original_plant_id # None
        /\ AllPatternTags(switch_plant_ids) /\ HasExistingTag(switch_plant_ids)) =>
        LET tags == switch_plant_ids
            r == ref_last_original_plant_id
            computed == LastExistingId(tags)
            base == IF r > computed THEN r ELSE computed
            without == recover_plant_indices(tags, None)
        IN  /\ ret.status = "ok"
            /\ without.status = "ok"
            /\ \A j \in 1..Len(tags) :
                /\ IsExistingTag(tags[j]) =>
                    /\ MapsTo(ret.plant, IdOfExistingTag(tags[j]), tags[j])
                    /\ MapsTo(without.plant, IdOfExistingTag(tags[j]), tags[j])
                /\ IsExpansionTag(tags[j]) =>
                    /\ MapsTo(ret.plant, base + HypotheticalRank(tags, j), tags[j])
                    /\ MapsTo(without.plant, computed + HypotheticalRank(tags, j), tags[j])
                /\ IsStorageTag(tags[j]) =>
                    /\ MapsTo(ret.storage, base + HypotheticalRank(tags, j), tags[j])
                    /\ MapsTo(without.storage, computed + HypotheticalRank(tags, j), tags[j])
            /\ r <= computed => (ret.plant = without.plant /\ ret.storage = without.storage)

EndsIn(t, suffix) == Len(t) >= 2 /\ LastTwo(t) = suffix
HasValue(d, v) == \E j \in 1..Len(d) : d[j].v = v

\* C6: recover_branch_indices places a tag in the AC map if and only if it
\* ends in "ac" and in the DC map if and only if it ends in "dc", under the
\* integer before the suffix; for distinct tags the two maps hold one entry
\* per tag.
C6_SplitsBySuffix ==
    (call = "recover_branch_indices" /\ ret.status = "ok") =>
        LET tags == switch_branch_ids IN
        /\ \A j \in 1..Len(tags) :
            /\ HasValue(ret.ac, tags[j]) <=> EndsIn(tags[j], <<"a", "c">>)
            /\ HasValue(ret.dc, tags[j]) <=> EndsIn(tags[j], <<"d", "c">>)
        /\ \A j \in 1..Len(ret.ac) : ret.ac[j].v = AcTag(ret.ac[j].k)
        /\ \A j \in 1..Len(ret.dc) : ret.dc[j].v = DcTag(ret.dc[j].k)
        /\ Distinct(tags) => Len(ret.ac) + Len(ret.dc) = Len(tags)

\* C7: in the table of build_transmission_lines every AC branch n carries
\* the tag "<n>ac" and every DC line n the tag "<n>dc", and
\* recover_branch_indices on the TRANSMISSION_LINE column returns the AC
\* branch ids as the keys of the AC map and the DC line ids as those of the
\* DC map.
C7_ExporterUsesCodecTags ==
    /\ call = "build_transmission_lines" =>
        /\ \A j \in 1..Len(grid.branch) :
            \E r \in 1..Len(ret) :
                /\ ret[r].TRANSMISSION_LINE.is_str
                /\ ret[r].TRANSMISSION_LINE.text = AcTag(grid.branch[j].branch_id)
        /\ \A j \in 1..Len(grid.dcline) :
            \E r \in 1..Len(ret) :
                /\ ret[r].TRANSMISSION_LINE.is_str
                /\ ret[r].TRANSMISSION_LINE.text = DcTag(grid.dcline[j].dcline_id)
    /\ call = "recover_transmission_lines" =>
        /\ ret.status = "ok"
        /\ DictKeys(ret.ac) = {grid.branch[j].branch_id : j \in 1..Len(grid.branch)}
        /\ DictKeys(ret.dc) = {grid.dcline[j].dcline_id : j \in 1..Len(grid.dcline)}

\* C8: split_plant_existing_expansion, on a list of pattern tags, returns the
\* g<n> tags as the existing list and the g<n>i tags as the expansion list,
\* each in input order; no tag is in both and no storage tag is in either.
C8_SplitByPattern ==
    (call = "split_plant_existing_expansion" /\ AllPatternTags(switch_plant_ids)) =>
        LET tags == switch_plant_ids IN
        /\ ret.existing = Filter(tags, 1, [j \in 1..Len(tags) |-> IsExistingTag(tags[j])])
        /\ ret.expansion = Filter(tags, 1, [j \in 1..Len(tags) |-> IsExpansionTag(tags[j])])
        /\ \A i \in 1..Len(ret.existing), j \in 1..Len(ret.expansion) :
            ret.existing[i] # ret.expansion[j]
        /\ \A i \in 1..Len(ret.existing) : ~IsStorageTag(ret.existing[i])
        /\ \A j \in 1..Len(ret.expansion) : ~IsStorageTag(ret.expansion[j])

\* C8's case: one tag of each pattern, split one and one with the storage
\* tag left out.
C8_Witness ==
    /\ call = "split_plant_existing_expansion"
    /\ Len(switch_plant_ids) = 3
    /\ IsStorageTag(switch_plant_ids[1])
    /\ IsExpansionTag(switch_plant_ids[2])
    /\ IsExistingTag(switch_plant_ids[3])
    /\ ret.existing = <<switch_plant_ids[3]>>
    /\ ret.expansion = <<switch_plant_ids[2]>>

(***************************************************************************)
(* The per-year grids of create_upgraded_grids.                            *)
(***************************************************************************)
Returned == call = "create_upgraded_grids" /\ ret.status = "ok"
OnlyYear(table, year) == SelectSeq(table, LAMBDA r : r.year = year)
Tables(g) ==
    [plant |-> g.plant, gencost |-> g.gencost, branch |-> g.branch,
     dcline |-> g.dcline, storage |-> g.storage]
TableObjects(g) == {g.obj.plant, g.obj.branch, g.obj.dcline}

\* C9: the grids of create_upgraded_grids are independent of one another.
\* The grid returned for a year holds what the call on the transmission and
\* storage decisions of that year alone returns for it, so the decisions of
\* another year have no effect on it; and the plant, branch and DC line
\* tables of the grids of two years, and of the original grid, are never the
\* same object.
C9_YearsIndependent ==
    Returned =>
        /\ \A j \in 1..Len(ret.all_grids) :
            LET year == ret.all_grids[j].k
                alone == UpgradedGrid(grid, build_gen, OnlyYear(build_tx, year),
                                      OnlyYear(build_storage_energy, year), year, 6)
            IN  /\ alone.status = "ok"
                /\ Tables(ret.all_grids[j].v) = Tables(alone.grid)
                /\ TableObjects(ret.all_grids[j].v) \cap TableObjects(grid) = {}
        /\ \A i, j \in 1..Len(ret.all_grids) :
            i # j => TableObjects(ret.all_grids[i].v)
                        \cap TableObjects(ret.all_grids[j].v) = {}

\* The years of the decisions on hypothetical plants, on lines and on
\* storage.
DecisionYears ==
    {build_gen[j].year : j \in {i \in 1..Len(build_gen) :
                                    IsHypotheticalTag(build_gen[i].gen_id)}}
        \cup {build_tx[j].year : j \in 1..Len(build_tx)}
        \cup {build_storage_energy[j].year : j \in 1..Len(build_storage_energy)}

\* C10: the dict create_upgraded_grids returns has exactly one grid per
\* investment year: its keys are the years of the generation, transmission
\* and storage build decisions, and a decision of positive capacity on an
\* expansion plant in a year, with no storage decision at all, gives the
\* grid of that year one plant row more than the original grid has.
C10_OneGridPerInvestmentYear ==
    Returned =>
        /\ DictKeys(ret.all_grids) = DecisionYears
        /\ \A j \in 1..Len(build_gen) :
            (/\ IsExpansionTag(build_gen[j].gen_id)
             /\ build_gen[j].capacity > 0
             /\ build_storage_energy = <<>>
             /\ \A i \in 1..Len(build_gen) :
                    IsExpansionTag(build_gen[i].gen_id) => i = j)
            => /\ DictHas(ret.all_grids, build_gen[j].year)
               /\ Len(DictGet(ret.all_grids, build_gen[j].year).plant)
                    = Len(grid.plant) + 1

(***************************************************************************)
(* add_tx_upgrades_to_grid applied to a grid, a table of transmission      *)
(* decisions and a year.                                                   *)
(***************************************************************************)
CallAddTxUpgradesToGrid ==
    /\ call = "none"
    /\ call' = "add_tx_upgrades_to_grid"
    /\ \E year \in Years :
        \E done \in {add_tx_upgrades_to_grid(grid, build_tx, year)} :
            ret' = [status |-> done.status, grid |-> done.grid, year |-> year]
    /\ UNCHANGED <<switch_plant_ids, ref_last_original_plant_id, plant_ids,
                   switch_branch_ids, grid, build_gen, build_tx, build_storage_energy, args, fs>>

\* Decisions on the AC branches of the grid: on both branches of the pair
\* {12, 16}, on branch 11 and on its parallel branch 15 of rateA = 0.
AcTxRows ==
    {[year |-> y, tx_id |-> AcTag(b), capacity |-> c] :
        y \in Years, b \in {11, 12, 15, 16}, c \in {0, 30, 60}}
RECURSIVE AcTxTablesOfLen(_)
AcTxTablesOfLen(n) ==
    IF n = 0 THEN {<<>>}
    ELSE {t \in {Append(p[1], p[2]) : p \in AcTxTablesOfLen(n - 1) \X AcTxRows} :
            DistinctTx(t)}
InitAddTxAc ==
    /\ call = "none"
    /\ switch_plant_ids = <<>>
    /\ ref_last_original_plant_id = None
    /\ plant_ids = <<>>
    /\ switch_branch_ids = <<>>
    /\ grid = GridOf(1, <<0>>)
    /\ build_gen = <<>>
    /\ build_tx \in UNION {AcTxTablesOfLen(n) : n \in 1..MaxTxRows}
    /\ build_storage_energy = <<>>
    /\ ret = <<>>
    /\ fs = NoFiles
    /\ args = <<>>
NextAddTxAc == CallAddTxUpgradesToGrid
SpecAddTxAc == InitAddTxAc /\ [][NextAddTxAc]_vars

\* Decisions on the DC lines 0 and 1 and on AC branch 11, on grids holding
\* one or both of the DC lines in either order.
InitAddTxDc ==
    /\ call = "none"
    /\ switch_plant_ids = <<>>
    /\ ref_last_original_plant_id = None
    /\ plant_ids = <<>>
    /\ switch_branch_ids = <<>>
    /\ grid \in {GridOf(1, dcs) : dcs \in {<<0>>, <<1>>, <<0, 1>>, <<1, 0>>}}
    /\ build_gen = <<>>
    /\ build_tx \in TxTables
    /\ build_storage_energy = <<>>
    /\ ret = <<>>
    /\ fs = NoFiles
    /\ args = <<>>
NextAddTxDc == CallAddTxUpgradesToGrid
SpecAddTxDc == InitAddTxDc /\ [][NextAddTxDc]_vars

TxApplied == call = "add_tx_upgrades_to_grid"

\* The branches of the grid that join the same unordered bus pair as row j.
ParallelSet(j) ==
    {i \in 1..Len(grid.branch) :
        {grid.branch[i].from_bus_id, grid.branch[i].to_bus_id}
            = {grid.branch[j].from_bus_id, grid.branch[j].to_bus_id}}
TotalRateA(rows) == RatSum([i \in 1..Len(grid.branch) |-> grid.branch[i].rateA], rows)
\* The sum of the positive decisions of the year on the positively rated
\* branches among rows.
YearUpgrade(rows, year) ==
    RatSum([r \in 1..Len(build_tx) |-> Q(build_tx[r].capacity)],
           {r \in 1..Len(build_tx) :
                /\ build_tx[r].year = year
                /\ build_tx[r].capacity > 0
                /\ \E i \in rows : /\ build_tx[r].tx_id = AcTag(grid.branch[i].branch_id)
                                   /\ RatPos(grid.branch[i].rateA)})

\* C11: parallel AC branches are scaled as a group. The call returns, and
\* every positively rated branch of a set of branches joining the same bus
\* pair has rateA multiplied by 1 + U / total and x divided by it, U being
\* the sum of the year's positive upgrades on the positively rated branches
\* of the set and total the starting rateA of the set; so rateA * x of the
\* branch is kept.
C11_ParallelBranchesScaleAsGroup ==
    TxApplied =>
        /\ ret.status = "ok"
        /\ \A j \in 1..Len(grid.branch) :
            RatPos(grid.branch[j].rateA) =>
                LET total == TotalRateA(ParallelSet(j))
                    factor == RatAdd(Q(1), RatDiv(YearUpgrade(ParallelSet(j), ret.year),
                                                  total))
                IN  /\ ret.grid.branch[j].rateA = RatMul(grid.branch[j].rateA, factor)
                    /\ RatMul(ret.grid.branch[j].x, factor) = grid.branch[j].x
                    /\ RatMul(ret.grid.branch[j].rateA, ret.grid.branch[j].x)
                        = RatMul(grid.branch[j].rateA, grid.branch[j].x)

\* Branch 12 (row 2) is scaled by an upgrade assigned to branch 16 alone.
C11_Witness ==
    /\ TxApplied
    /\ ret.status = "ok"
    /\ \E r \in 1..Len(build_tx) :
        build_tx[r].year = ret.year /\ build_tx[r].tx_id = AcTag(16)
            /\ build_tx[r].capacity > 0
    /\ \A r \in 1..Len(build_tx) :
        build_tx[r].year = ret.year => build_tx[r].tx_id # AcTag(12)
    /\ ret.grid.branch[2].rateA # grid.branch[2].rateA

\* The capacity of the positive decision of the year on DC line d, 0 when
\* the table holds none.
DcDecision(d, year) ==
    RatSum([r \in 1..Len(build_tx) |-> Q(build_tx[r].capacity)],
           {r \in 1..Len(build_tx) :
                /\ build_tx[r].year = year
                /\ build_tx[r].capacity > 0
                /\ build_tx[r].tx_id = DcTag(d)})

\* C12: DC upgrades are applied per line. The call returns, and every DC
\* line d of the grid has Pmax raised and Pmin lowered by the capacity of
\* the year's positive decision for the tag "<d>dc" (by 0 when there is
\* none), whatever the row of the decision in the table and whatever other
\* decisions the table holds.
C12_DcUpgradePerLine ==
    TxApplied =>
        /\ ret.status = "ok"
        /\ \A j \in 1..Len(grid.dcline) :
            LET c == DcDecision(grid.dcline[j].dcline_id, ret.year)
            IN  /\ ret.grid.dcline[j].Pmax = RatAdd(grid.dcline[j].Pmax, c)
                /\ ret.grid.dcline[j].Pmin = RatSub(grid.dcline[j].Pmin, c)

(***************************************************************************)
(* add_gen_upgrades_to_grid applied to a grid, a table of generation       *)
(* decisions and a year.                                                   *)
(***************************************************************************)
CallAddGenUpgradesToGrid ==
    /\ call = "none"
    /\ call' = "add_gen_upgrades_to_grid"
    /\ \E year \in Years :
        \E done \in {add_gen_upgrades_to_grid(grid, build_gen, year, 6)} :
            ret' = [status |-> done.status, grid |-> done.grid, year |-> year]
    /\ UNCHANGED <<switch_plant_ids, ref_last_original_plant_id, plant_ids,
                   switch_branch_ids, grid, build_gen, build_tx, build_storage_energy, args, fs>>

InitAddGen ==
    /\ call = "none"
    /\ switch_plant_ids = <<>>
    /\ ref_last_original_plant_id = None
    /\ plant_ids = <<>>
    /\ switch_branch_ids = <<>>
    /\ grid \in {GridOf(n, <<0>>) : n \in 1..2}
    /\ build_gen \in GenTables
    /\ build_tx = <<>>
    /\ build_storage_energy = <<>>
    /\ ret = <<>>
    /\ fs = NoFiles
    /\ args = <<>>
NextAddGen == CallAddGenUpgradesToGrid
SpecAddGen == InitAddGen /\ [][NextAddGen]_vars

GenApplied == call = "add_gen_upgrades_to_grid"

\* The rows of build_gen that decide a positive capacity in the year for the
\* expansion of a plant of the grid, and the row of that plant in the grid.
BuiltExpansions(year) ==
    {r \in 1..Len(build_gen) :
        /\ build_gen[r].year = year
        /\ build_gen[r].capacity > 0
        /\ \E k \in 1..Len(grid.plant) :
            build_gen[r].gen_id = ExpansionTag(grid.plant[k].plant_id)}
PlantRowOfExpansion(r) ==
    CHOOSE k \in 1..Len(grid.plant) :
        build_gen[r].gen_id = ExpansionTag(grid.plant[k].plant_id)
\* Plant row new is the plant that decision r builds.
IsBuiltPlant(new, r) ==
    LET old == grid.plant[PlantRowOfExpansion(r)]
        c == Q(build_gen[r].capacity)
    IN  /\ new.Pmax = c
        /\ RatMul(new.Pmin, old.Pmax) = RatMul(c, old.Pmin)
        /\ new.bus_id = old.bus_id
        /\ new.type = old.type

\* The table names plants of the grid only, and holds for every plant of the
\* grid its existing tag and a decision on its expansion.
CompleteGenTable ==
    /\ \A r \in 1..Len(build_gen) :
        \E k \in 1..Len(grid.plant) :
            build_gen[r].gen_id \in {ExistingTag(grid.plant[k].plant_id),
                                     ExpansionTag(grid.plant[k].plant_id)}
    /\ \A k \in 1..Len(grid.plant) :
        \A tag \in {ExistingTag(grid.plant[k].plant_id),
                     ExpansionTag(grid.plant[k].plant_id)} :
            \E r \in 1..Len(build_gen) : build_gen[r].gen_id = tag

\* C13: the right plant is built for each decision. The call returns, the
\* rows of the original plants stay, and the rows added are one per
\* expansion tag g<k>i of positive capacity in the year, with Pmax = c,
\* Pmin = c * Pmin_k / Pmax_k and the bus and type of plant k; nothing is
\* added for a capacity of 0, for another year or for an existing plant,
\* in whatever order the table holds its rows.
C13_RightPlantPerDecision ==
    (GenApplied /\ CompleteGenTable)
    => /\ ret.status = "ok"
       /\ Len(ret.grid.plant) = Len(grid.plant) + Cardinality(BuiltExpansions(ret.year))
       /\ SubSeq(ret.grid.plant, 1, Len(grid.plant)) = grid.plant
       /\ \A r \in BuiltExpansions(ret.year) :
            \E j \in (Len(grid.plant) + 1)..Len(ret.grid.plant) :
                IsBuiltPlant(ret.grid.plant[j], r)

(***************************************************************************)
(* helpers.match_variables and switch_to_grid.extract_build_decisions.     *)
(*                                                                         *)
(* The solution dictionary is a dict of str keys (sequences of characters) *)
(* in insertion order; its value is the number under "Value". A DataFrame  *)
(* is [columns, rows], each row a function of the column names.            *)
(***************************************************************************)
LowerCase ==
    {"a", "b", "c", "d", "e", "f", "g", "h", "i", "j", "k", "l", "m",
     "n", "o", "p", "q", "r", "s", "t", "u", "v", "w", "x", "y", "z"}
BuildGenName == <<"B", "u", "i", "l", "d", "G", "e", "n">>
BuildTxName == <<"B", "u", "i", "l", "d", "T", "x">>
BuildStorageEnergyName ==
    <<"B", "u", "i", "l", "d", "S", "t", "o", "r", "a", "g", "e",
      "E", "n", "e", "r", "g", "y">>

\* The first position from p on whose character is not of the class.
RECURSIVE RunEnd(_, _, _)
RunEnd(key, p, class) ==
    IF p > Len(key) \/ key[p] \notin class THEN p ELSE RunEnd(key, p + 1, class)

StartsWith(key, name) == Len(key) >= Len(name) /\ SubSeq(key, 1, Len(name)) = name

\* re.match of name\[(?P<id>[a-z0-9]+),(?P<year>[0-9]+)\] at the start of
\* key: [matched, id, year, group0]. Neither class holds "," or "]", so the
\* two runs are the maximal ones.
MatchBuild(name, key) ==
    LET open == Len(name) + 1
        comma == RunEnd(key, open + 1, LowerCase \cup {Digits[d] : d \in 1..Len(Digits)})
        close == RunEnd(key, comma + 1, {Digits[d] : d \in 1..Len(Digits)})
        matched == /\ StartsWith(key, name)
                   /\ open <= Len(key) /\ key[open] = "["
                   /\ comma > open + 1 /\ comma <= Len(key) /\ key[comma] = ","
                   /\ close > comma + 1 /\ close <= Len(key) /\ key[close] = "]"
    IN  IF matched
        THEN [matched |-> TRUE, id |-> SubSeq(key, open + 1, comma - 1),
              year |-> SubSeq(key, comma + 1, close - 1),
              group0 |-> SubSeq(key, 1, close)]
        ELSE [matched |-> FALSE, id |-> <<>>, year |-> <<>>, group0 |-> <<>>]

\* match_variables for the three build patterns: [status, columns, rows].
\* id_name is the name of the id group. The value is looked up under the
\* text matched (m.group(0)), KeyError when that is no key of the dict; with
\* no match the frame has no column.
RECURSIVE MatchedRows(_, _, _, _)
MatchedRows(variables, name, id_name, j) ==
    IF j > Len(variables) THEN <<>>
    ELSE LET m == MatchBuild(name, variables[j].k)
         IN  (IF ~m.matched \/ ~DictHas(variables, m.group0) THEN <<>>
              ELSE <<[c \in {"year", id_name, "capacity"} |->
                        IF c = "year" THEN m.year
                        ELSE IF c = id_name THEN m.id
                        ELSE DictGet(variables, m.group0)]>>)
             \o MatchedRows(variables, name, id_name, j + 1)
match_variables(variables, name, id_name) ==
    LET rows == MatchedRows(variables, name, id_name, 1)
    IN  IF \E j \in 1..Len(variables) :
                LET m == MatchBuild(name, variables[j].k)
                IN  m.matched /\ ~DictHas(variables, m.group0)
        THEN [status |-> "KeyError", columns |-> <<>>, rows |-> <<>>]
        ELSE [status |-> "ok",
              columns |-> IF rows = <<>> THEN <<>> ELSE <<"year", id_name, "capacity">>,
              rows |-> rows]

\* df.astype({"year": int}): KeyError when the frame has no column year.
astype_year_int(df) ==
    IF df.status # "ok" THEN df
    ELSE IF \A c \in 1..Len(df.columns) : df.columns[c] # "year"
         THEN [df EXCEPT !.status = "KeyError"]
    ELSE [df EXCEPT !.rows = [j \in 1..Len(df.rows) |->
                                [df.rows[j] EXCEPT !["year"] = ParseInt(@)]]]

\* The guard on the storage frame alone: shape == (0, 0) gives the frame of
\* the three columns and no row.
with_storage_columns(df) ==
    IF df.status = "ok" /\ df.columns = <<>> /\ df.rows = <<>>
    THEN [df EXCEPT !.columns = <<"year", "s_id", "capacity">>]
    ELSE df

\* extract_build_decisions: [status, build_gen, build_tx, build_storage_energy];
\* the first exception ends the call.
extract_build_decisions(variables) ==
    LET gen == astype_year_int(match_variables(variables, BuildGenName, "gen_id"))
        tx == astype_year_int(match_variables(variables, BuildTxName, "tx_id"))
        storage == astype_year_int(with_storage_columns(
                        match_variables(variables, BuildStorageEnergyName, "s_id")))
        status == IF gen.status # "ok" THEN gen.status
                  ELSE IF tx.status # "ok" THEN tx.status
                  ELSE storage.status
    IN  [status |-> status, build_gen |-> gen, build_tx |-> tx,
         build_storage_energy |-> storage]

CallExtractBuildDecisions ==
    /\ call = "none"
    /\ call' = "extract_build_decisions"
    /\ ret' = extract_build_decisions(args.variables)
    /\ UNCHANGED <<switch_plant_ids, ref_last_original_plant_id, plant_ids,
                   switch_branch_ids, grid, build_gen, build_tx, build_storage_energy, args, fs>>

\* The keys of the solution: Name[id,year], of the three build families and
\* of a family that is no build decision.
VariableKey(name, id, year) ==
    name \o <<"[">> \o id \o <<",">> \o FormatInt(year) \o <<"]">>
SolutionKeys ==
    {VariableKey(BuildGenName, ExistingTag(1), 2019),
     VariableKey(BuildGenName, ExpansionTag(1), 2030),
     VariableKey(BuildTxName, AcTag(11), 2030),
     VariableKey(BuildTxName, DcTag(0), 2040),
     VariableKey(BuildStorageEnergyName, StorageTag(1), 2030),
     VariableKey(<<"D", "i", "s", "p", "a", "t", "c", "h", "G", "e", "n">>,
                 ExistingTag(1), 1)}
RECURSIVE SolutionsOfLen(_)
SolutionsOfLen(n) ==
    IF n = 0 THEN {<<>>}
    ELSE {d \in {Append(p[1], [k |-> p[2], v |-> 50]) :
                    p \in SolutionsOfLen(n - 1) \X SolutionKeys} :
            \A i, j \in 1..Len(d) : d[i].k = d[j].k => i = j}
InitExtract ==
    /\ call = "none"
    /\ switch_plant_ids = <<>>
    /\ ref_last_original_plant_id = None
    /\ plant_ids = <<>>
    /\ switch_branch_ids = <<>>
    /\ NoTables
    /\ ret = <<>>
    /\ fs = NoFiles
    /\ \E variables \in UNION {SolutionsOfLen(n) : n \in 0..MaxVariables} :
        args = [variables |-> variables]
NextExtract == CallExtractBuildDecisions
SpecExtract == InitExtract /\ [][NextExtract]_vars

\* The entries of the solution of a build family, as rows, in the order of
\* the solution.
FamilyRows(name, id_name) ==
    LET keys == SelectSeq(args.variables, LAMBDA e : StartsWith(e.k, name \o <<"[">>))
    IN  [j \in 1..Len(keys) |->
            LET m == MatchBuild(name, keys[j].k)
            IN  [c \in {"year", id_name, "capacity"} |->
                    IF c = "year" THEN DigitsValue(m.year)
                    ELSE IF c = id_name THEN m.id ELSE keys[j].v]]

\* C14: extract_build_decisions does not fail on an unused family. No error
\* is raised, and each of the three tables has the columns year, the id of
\* its family and capacity, and the entries of its family as rows, none
\* when the solution holds no entry of the family.
C14_UnusedFamilyGivesEmptyTable ==
    call = "extract_build_decisions" =>
        /\ ret.status = "ok"
        /\ ret.build_gen.columns = <<"year", "gen_id", "capacity">>
        /\ ret.build_gen.rows = FamilyRows(BuildGenName, "gen_id")
        /\ ret.build_tx.columns = <<"year", "tx_id", "capacity">>
        /\ ret.build_tx.rows = FamilyRows(BuildTxName, "tx_id")
        /\ ret.build_storage_energy.columns = <<"year", "s_id", "capacity">>
        /\ ret.build_storage_energy.rows = FamilyRows(BuildStorageEnergyName, "s_id")

(***************************************************************************)
(* helpers.parse_timepoints.                                               *)
(*                                                                         *)
(* The frame of a variable is [index, columns, values]: the timestamps,    *)
(* the labels of the columns in their order and, per timestamp, the cell   *)
(* of every column, NaN where the solution holds no value.  A label is a   *)
(* str or a tuple of str: the frame that set_index().unstack() makes of    *)
(* the one value column has the labels (value_name, params), in the order  *)
(* of the params.  value_name is neither "params" nor "timepoint".         *)
(***************************************************************************)
\* The order of str: by code point, a proper prefix first. CodePoints lists
\* the characters of the keys and of the typed lines in the order of their
\* code points.
CodePoints ==
    <<"+", ",", "-", "0", "1", "2", "3", "4", "5", "6", "7", "8", "9",
      "A", "B", "C", "D", "E", "F", "G", "H", "I", "J", "K", "L", "M",
      "N", "O", "P", "Q", "R", "S", "T", "U", "V", "W", "X", "Y", "Z",
      "[", "]", "_",
      "a", "b", "c", "d", "e", "f", "g", "h", "i", "j", "k", "l", "m",
      "n", "o", "p", "q", "r", "s", "t", "u", "v", "w", "x", "y", "z">>
CharCode(c) == CHOOSE k \in 1..Len(CodePoints) : CodePoints[k] = c
StrLess(a, b) ==
    \E j \in 1..(Len(a) + 1) :
        /\ j <= Len(b)
        /\ SubSeq(a, 1, j - 1) = SubSeq(b, 1, j - 1)
        /\ (j = Len(a) + 1 \/ CharCode(a[j]) < CharCode(b[j]))

\* The values of a level that unstack() moves to the columns: the distinct
\* values in the order of str.
RECURSIVE UnstackedColumns(_)
UnstackedColumns(S) ==
    IF S = {} THEN <<>>
    ELSE LET least == CHOOSE a \in S : \A b \in S \ {a} : StrLess(a, b)
         IN  <<least>> \o UnstackedColumns(S \ {least})

\* re.match of name\[(?P<params>.*),(?P<timepoint>.*?)\] at the start of
\* key. The greedy params group ends at the last comma that has a "]"
\* behind it, the lazy timepoint group at the first "]" behind that comma.
MatchTimepoint(name, key) ==
    LET open == Len(name) + 1
        commas == {c \in (open + 1)..Len(key) :
                    key[c] = "," /\ \E e \in (c + 1)..Len(key) : key[e] = "]"}
        comma == CHOOSE c \in commas : \A d \in commas : d <= c
        close == CHOOSE e \in (comma + 1)..Len(key) :
                    key[e] = "]" /\ \A f \in (comma + 1)..(e - 1) : key[f] # "]"
    IN  IF StartsWith(key, name) /\ open <= Len(key) /\ key[open] = "[" /\ commas # {}
        THEN [matched |-> TRUE, params |-> SubSeq(key, open + 1, comma - 1),
              timepoint |-> SubSeq(key, comma + 1, close - 1),
              group0 |-> SubSeq(key, 1, close)]
        ELSE [matched |-> FALSE, params |-> <<>>, timepoint |-> <<>>, group0 |-> <<>>]

\* match_variables for the pattern of a timepoint variable: the rows
\* [params, timepoint, value].
RECURSIVE TimepointRows(_, _, _)
TimepointRows(var_dict, name, j) ==
    IF j > Len(var_dict) THEN <<>>
    ELSE LET m == MatchTimepoint(name, var_dict[j].k)
         IN  (IF ~m.matched \/ ~DictHas(var_dict, m.group0) THEN <<>>
              ELSE <<[params |-> m.params, timepoint |-> m.timepoint,
                      value |-> DictGet(var_dict, m.group0)]>>)
             \o TimepointRows(var_dict, name, j + 1)

\* The value of a variable in parsed_data: None, or a frame.
NoFrame == [is_none |-> TRUE, df |-> <<>>]
Frame(df) == [is_none |-> FALSE, df |-> df]

\* A column label: the str P, or the tuple of the strs in items.
StrLabel(P) == [kind |-> "str", str |-> P, items |-> <<>>]
TupleLabel(items) == [kind |-> "tuple", str |-> <<>>, items |-> items]
\* A cell of a frame: a value, or NaN.
NaNCell == [is_nan |-> TRUE, value |-> 0]
ValueCell(v) == [is_nan |-> FALSE, value |-> v]

\* The body of the loop of parse_timepoints for one variable: [status, value],
\* value None when nothing matched.
ParseVariable(var_dict, name, timestamps_to_timepoints, value_name) ==
    LET rows == TimepointRows(var_dict, name, 1)
        Rows == 1..Len(rows)
        \* df.index.astype(int): int() of every timepoint
        cast == [j \in Rows |-> int(rows[j].timepoint)]
        labels == {cast[j].value : j \in Rows}
        At(tp) == {rows[j].timepoint : j \in {i \in Rows : cast[i].value = tp}}
        params == UnstackedColumns({rows[j].params : j \in Rows})
        Cell(tp, c) ==
            LET hit == {j \in Rows : cast[j].value = tp /\ rows[j].params = params[c]}
            IN  IF hit = {} THEN NaNCell ELSE ValueCell(rows[CHOOSE j \in hit : TRUE].value)
    IN  IF \E j \in 1..Len(var_dict) :
                LET m == MatchTimepoint(name, var_dict[j].k)
                IN  m.matched /\ ~DictHas(var_dict, m.group0)
        THEN [status |-> "KeyError", value |-> NoFrame]
        ELSE IF rows = <<>> THEN [status |-> "ok", value |-> NoFrame]
        \* unstack(): no two rows for the same (timepoint, params)
        ELSE IF \E i, j \in Rows : i # j /\ rows[i].timepoint = rows[j].timepoint
                                        /\ rows[i].params = rows[j].params
             THEN [status |-> "ValueError", value |-> NoFrame]
        \* Index.astype turns the ValueError of int() into
        \* TypeError("Cannot cast Index to dtype int64")
        ELSE IF \E j \in Rows : ~cast[j].ok THEN [status |-> "TypeError", value |-> NoFrame]
        \* df.loc[timestamps_to_timepoints["timepoint"]]
        ELSE IF \E t \in 1..Len(timestamps_to_timepoints) :
                    timestamps_to_timepoints[t].timepoint \notin labels
             THEN [status |-> "KeyError", value |-> NoFrame]
        \* set_index(timestamps_to_timepoints.index): one row per timestamp
        ELSE IF \E t \in 1..Len(timestamps_to_timepoints) :
                    Cardinality(At(timestamps_to_timepoints[t].timepoint)) > 1
             THEN [status |-> "ValueError", value |-> NoFrame]
        ELSE [status |-> "ok",
              value |-> Frame([index |-> [t \in 1..Len(timestamps_to_timepoints) |->
                                        timestamps_to_timepoints[t].timestamp],
                         columns |-> [c \in 1..Len(params) |->
                                        TupleLabel(<<value_name, params[c]>>)],
                         values |-> [t \in 1..Len(timestamps_to_timepoints) |->
                                        [c \in 1..Len(params) |->
                                            Cell(timestamps_to_timepoints[t].timepoint, c)]]])]

\* parse_timepoints leaving the loop at the first variable that is not found.
RECURSIVE ParseVariablesUntilMissing(_, _, _, _, _, _)
ParseVariablesUntilMissing(var_dict, variables, timestamps_to_timepoints, value_name, j, parsed_data) ==
    IF j > Len(variables) THEN [status |-> "ok", parsed_data |-> parsed_data]
    ELSE LET df == ParseVariable(var_dict, variables[j], timestamps_to_timepoints, value_name)
         IN  IF df.status # "ok" THEN [status |-> df.status, parsed_data |-> <<>>]
             ELSE IF df.value.is_none
                  THEN [status |-> "ok",
                        parsed_data |-> DictSet(parsed_data, variables[j], df.value)]
             ELSE ParseVariablesUntilMissing(
                    var_dict, variables, timestamps_to_timepoints, value_name, j + 1,
                    DictSet(parsed_data, variables[j], df.value))
parse_timepoints_until_missing(var_dict, variables, timestamps_to_timepoints, value_name) ==
    ParseVariablesUntilMissing(var_dict, variables, timestamps_to_timepoints, value_name, 1, <<>>)

\* parse_timepoints: [status, parsed_data]; the first exception ends the call.
RECURSIVE ParseVariables(_, _, _, _, _, _)
ParseVariables(var_dict, variables, timestamps_to_timepoints, value_name, j, parsed_data) ==
    IF j > Len(variables) THEN [status |-> "ok", parsed_data |-> parsed_data]
    ELSE LET df == ParseVariable(var_dict, variables[j], timestamps_to_timepoints, value_name)
         IN  IF df.status # "ok" THEN [status |-> df.status, parsed_data |-> <<>>]
             ELSE ParseVariables(var_dict, variables, timestamps_to_timepoints, value_name,
                                 j + 1, DictSet(parsed_data, variables[j], df.value))
parse_timepoints(var_dict, variables, timestamps_to_timepoints, value_name) ==
    ParseVariables(var_dict, variables, timestamps_to_timepoints, value_name, 1, <<>>)

CallParseTimepoints ==
    /\ call = "none"
    /\ call' = "parse_timepoints"
    /\ ret' = parse_timepoints(args.var_dict, args.variables,
                                args.timestamps_to_timepoints, args.value_name)
    /\ UNCHANGED <<switch_plant_ids, ref_last_original_plant_id, plant_ids,
                   switch_branch_ids, grid, build_gen, build_tx, build_storage_energy, args, fs>>

\* The solution: DispatchGen[g1,<tp>] for timepoints 1 and 2,
\* DispatchTx[1,2,<tp>] for timepoint 1 and 2, DispatchGen[g1] without a
\* timepoint, DispatchGen[g1,x] whose timepoint is no integer,
\* DispatchGen[g1,+1], DispatchGen[g1,-1] and DispatchGen[g1,1_0], whose
\* timepoints int() reads as 1, -1 and 10, and a build decision.
\* value_names of SwitchExtract.parse_data: "dispatch" and "dual".
ValueNames == {<<"d", "i", "s", "p", "a", "t", "c", "h">>, <<"d", "u", "a", "l">>}
DispatchGenName == <<"D", "i", "s", "p", "a", "t", "c", "h", "G", "e", "n">>
DispatchTxName == <<"D", "i", "s", "p", "a", "t", "c", "h", "T", "x">>
DispatchKeys ==
    {VariableKey(DispatchGenName, ExistingTag(1), tp) : tp \in 1..2}
        \cup {VariableKey(DispatchTxName, <<"1", ",", "2">>, tp) : tp \in 1..2}
        \cup {DispatchGenName \o <<"[">> \o ExistingTag(1) \o <<"]">>,
              DispatchGenName \o <<"[">> \o ExistingTag(1) \o <<",", "x", "]">>,
              DispatchGenName \o <<"[">> \o ExistingTag(1) \o <<",", "+", "1", "]">>,
              DispatchGenName \o <<"[">> \o ExistingTag(1) \o <<",", "-", "1", "]">>,
              DispatchGenName \o <<"[">> \o ExistingTag(1) \o <<",", "1", "_", "0", "]">>,
              VariableKey(BuildGenName, ExistingTag(1), 2019)}
RECURSIVE VarDictsOfLen(_)
VarDictsOfLen(n) ==
    IF n = 0 THEN {<<>>}
    ELSE {d \in {Append(p[1], [k |-> p[2], v |-> 10 * Len(p[1]) + 5]) :
                    p \in VarDictsOfLen(n - 1) \X DispatchKeys} :
            \A i, j \in 1..Len(d) : d[i].k = d[j].k => i = j}
InitParseTimepoints ==
    /\ call = "none"
    /\ switch_plant_ids = <<>>
    /\ ref_last_original_plant_id = None
    /\ plant_ids = <<>>
    /\ switch_branch_ids = <<>>
    /\ NoTables
    /\ ret = <<>>
    /\ fs = NoFiles
    /\ \E var_dict \in UNION {VarDictsOfLen(n) : n \in 0..MaxVariables},
          variables \in {<<DispatchGenName>>, <<DispatchGenName, DispatchTxName>>,
                         <<DispatchTxName, DispatchGenName>>},
          tps \in {<<1>>, <<1, 1, 2>>, <<0 - 1>>, <<10>>},
          value_name \in ValueNames :
            args = [var_dict |-> var_dict, variables |-> variables,
                    timestamps_to_timepoints |->
                        [t \in 1..Len(tps) |-> [timestamp |-> t, timepoint |-> tps[t]]],
                    value_name |-> value_name]
NextParseTimepoints == CallParseTimepoints
SpecParseTimepoints == InitParseTimepoints /\ [][NextParseTimepoints]_vars

\* The solution holds a key of the form Name[...,timepoint].
HasKeyOfVariable(name) ==
    \E j \in 1..Len(args.var_dict) :
        LET key == args.var_dict[j].k
        IN  /\ StartsWith(key, name \o <<"[">>)
            /\ key[Len(key)] = "]"
            /\ \E c \in (Len(name) + 2)..(Len(key) - 1) : key[c] = ","
Requested == {args.variables[j] : j \in 1..Len(args.variables)}
ParsedAlone(name) ==
    ParseVariable(args.var_dict, name, args.timestamps_to_timepoints, args.value_name)

\* C15: a requested variable that the solution does not hold gives None and
\* no error. When the call returns, every requested name is a key of the
\* dictionary returned, its value is None exactly when the solution has no
\* key of the form Name[...,timepoint], and a variable that is found has the
\* frame it has when requested alone; the call raises only when the parsing
\* of a variable that is found raises.
C15_MissingVariableGivesNone ==
    call = "parse_timepoints" =>
        /\ ret.status = "ok" =>
            /\ DictKeys(ret.parsed_data) = Requested
            /\ \A name \in Requested :
                /\ DictGet(ret.parsed_data, name).is_none <=> ~HasKeyOfVariable(name)
                /\ DictGet(ret.parsed_data, name) = ParsedAlone(name).value
        /\ ret.status # "ok" =>
            \E name \in Requested :
                HasKeyOfVariable(name) /\ ParsedAlone(name).status = ret.status

\* DispatchTx is requested first and not found, DispatchGen is found.
C15_Witness ==
    /\ call = "parse_timepoints"
    /\ ret.status = "ok"
    /\ args.variables = <<DispatchTxName, DispatchGenName>>
    /\ DictGet(ret.parsed_data, DispatchTxName).is_none
    /\ ~DictGet(ret.parsed_data, DispatchGenName).is_none

(***************************************************************************)
(* profiles_to_switch.py: the timepoints table and its validation.  A      *)
(* timepoints table is a sequence of rows indexed by timepoint_id, with    *)
(* the columns timestamp, timeseries, ts_period and ts_duration_of_tp.     *)
(***************************************************************************)
\* timepoints["timeseries"].unique()
UniqueTimeseries(timepoints) ==
    {timepoints[i].timeseries : i \in 1..Len(timepoints)}

\* timepoints.groupby(["timeseries", "ts_period", "ts_duration_of_tp"])
TimeseriesGroups(timepoints) ==
    {<<timepoints[i].timeseries, timepoints[i].ts_period,
       timepoints[i].ts_duration_of_tp>> : i \in 1..Len(timepoints)}

\* The validation with the duration column left out of the groups.
check_timepoints_period_only(timepoints) ==
    LET num_timeseries == Cardinality(UniqueTimeseries(timepoints))
        num_timeseries_groups ==
            Cardinality({<<timepoints[i].timeseries, timepoints[i].ts_period>> :
                            i \in 1..Len(timepoints)})
    IN  [status |-> IF num_timeseries # num_timeseries_groups
                    THEN "ValueError" ELSE "ok",
         timepoints |-> timepoints]

_check_timepoints(timepoints) ==
    LET num_timeseries == Cardinality(UniqueTimeseries(timepoints))
        num_timeseries_groups == Cardinality(TimeseriesGroups(timepoints))
    IN  [status |-> IF num_timeseries # num_timeseries_groups
                    THEN "ValueError" ELSE "ok",
         timepoints |-> timepoints]

CallCheckTimepoints ==
    /\ call = "none"
    /\ call' = "_check_timepoints"
    /\ ret' = _check_timepoints(args.timepoints)
    /\ UNCHANGED <<switch_plant_ids, ref_last_original_plant_id, plant_ids,
                   switch_branch_ids, grid, build_gen, build_tx, build_storage_energy, args, fs>>

\* The rows a timepoints table is made of: two timeseries, the two
\* investment periods, durations of one and two hours.
TimepointCells ==
    {[timeseries |-> s, ts_period |-> p, ts_duration_of_tp |-> d] :
        s \in 0..1, p \in Years, d \in 1..2}
\* Row i of a table has timepoint_id i and the timestamp of hour i.
TimepointTablesOfLen(n) ==
    {[i \in 1..n |-> [timepoint_id |-> i, timestamp |-> i,
                      timeseries |-> c[i].timeseries,
                      ts_period |-> c[i].ts_period,
                      ts_duration_of_tp |-> c[i].ts_duration_of_tp]] :
        c \in [1..n -> TimepointCells]}
TimepointTables == UNION {TimepointTablesOfLen(n) : n \in 0..MaxTimepoints}

InitCheckTimepoints ==
    /\ call = "none"
    /\ switch_plant_ids = <<>>
    /\ ref_last_original_plant_id = None
    /\ plant_ids = <<>>
    /\ switch_branch_ids = <<>>
    /\ NoTables
    /\ ret = <<>>
    /\ fs = NoFiles
    /\ \E timepoints \in TimepointTables : args = [timepoints |-> timepoints]
NextCheckTimepoints == CallCheckTimepoints
SpecCheckTimepoints == InitCheckTimepoints /\ [][NextCheckTimepoints]_vars

\* Some timeseries occurs in two rows that differ in period or in duration.
TimeseriesWithTwoPairs(timepoints) ==
    \E i, j \in 1..Len(timepoints) :
        /\ timepoints[i].timeseries = timepoints[j].timeseries
        /\ \/ timepoints[i].ts_period # timepoints[j].ts_period
           \/ timepoints[i].ts_duration_of_tp # timepoints[j].ts_duration_of_tp

\* C16: _check_timepoints raises ValueError exactly when some timeseries
\* occurs with more than one distinct (ts_period, ts_duration_of_tp) pair,
\* returns normally otherwise, and leaves the timepoints table as it was.
C16_CheckTimepointsIffTwoPairs ==
    call = "_check_timepoints" =>
        /\ ret.status = "ValueError" <=> TimeseriesWithTwoPairs(args.timepoints)
        /\ ret.status = "ok" <=> ~TimeseriesWithTwoPairs(args.timepoints)
        /\ ret.timepoints = args.timepoints

\* Two timeseries in one period; one of them has two durations.
C16_Witness ==
    /\ call = "_check_timepoints"
    /\ ret.status = "ValueError"
    /\ Cardinality(UniqueTimeseries(args.timepoints)) = 2
    /\ \A i, j \in 1..Len(args.timepoints) :
            args.timepoints[i].ts_period = args.timepoints[j].ts_period

(***************************************************************************)
(* prepare.py and profiles_to_switch.py: the entry points that take a      *)
(* timepoints table, step by step.  ret holds the position of the call     *)
(* (pc), the output tables built so far and, once the call has ended, how  *)
(* it ended; fs holds the paths of the directories and files that exist.   *)
(* The grid, the profiles and the timestamp mapping are well formed, so    *)
(* the builders of the tables do not raise.                                *)
(***************************************************************************)
NoPath == [is_none |-> TRUE, path |-> ""]
Path(p) == [is_none |-> FALSE, path |-> p]
\* os.path.join(folder, name)
Join(folder, name) == folder \o "/" \o name

\* A folder by the names on its path: <<"root", "inputs">> is root/inputs.
RECURSIVE PathOf(_)
PathOf(names) ==
    IF Len(names) = 1 THEN names[1]
    ELSE Join(PathOf(SubSeq(names, 1, Len(names) - 1)), names[Len(names)])
\* os.makedirs(folder, exist_ok=True): [status, dirs]. The folders on the
\* path are made from the top, those that exist are accepted, and a file in
\* the place of a folder ends the call: NotADirectoryError where the file
\* stands above the folder, FileExistsError where it has the folder's path.
makedirs(files, names) ==
    LET paths == [k \in 1..Len(names) |-> PathOf(SubSeq(names, 1, k))]
        blocked == {k \in 1..Len(names) : paths[k] \in files.files}
        first == CHOOSE k \in blocked : \A b \in blocked : k <= b
    IN  IF blocked = {}
        THEN [status |-> "ok", dirs |-> files.dirs \cup {paths[k] : k \in 1..Len(names)}]
        ELSE [status |-> IF first = Len(names) THEN "FileExistsError"
                         ELSE "NotADirectoryError",
              dirs |-> files.dirs \cup {paths[k] : k \in 1..(first - 1)}]
\* The folder grid_to_switch is called with, and its parent.
OutputNames == <<"root", "inputs">>

\* An exception leaves the call where it is.
Raise(status) == [ret EXCEPT !.status = status]

\* prepare_inputs(grid, profiles, timepoints, timestamp_to_timepoints,
\*                switch_files_root)
CallPrepareInputs ==
    /\ call = "none"
    /\ call' = "prepare_inputs"
    /\ ret' = [status |-> "running", pc |-> "_check_timepoints", built |-> {}]
    /\ UNCHANGED <<switch_plant_ids, ref_last_original_plant_id, plant_ids,
                   switch_branch_ids, grid, build_gen, build_tx, build_storage_energy, args, fs>>

\* _check_timepoints(timepoints), the first statement of prepare_inputs.
PrepareCheckTimepoints ==
    /\ call = "prepare_inputs"
    /\ ret.status = "running"
    /\ ret.pc = "_check_timepoints"
    /\ \E checked \in {_check_timepoints(args.timepoints)} :
        ret' = IF checked.status = "ok"
               THEN [ret EXCEPT !.pc = "makedirs"]
               ELSE Raise(checked.status)
    /\ UNCHANGED <<call, switch_plant_ids, ref_last_original_plant_id, plant_ids,
                   switch_branch_ids, grid, build_gen, build_tx, build_storage_energy, args, fs>>

\* The two folders are created under switch_files_root; with no root given
\* the lookup of os.getgwd raises AttributeError.  makedirs creates the
\* root as well and accepts folders that exist; the first of the two calls
\* that raises ends prepare_inputs.
PrepareMakeDirs ==
    /\ call = "prepare_inputs"
    /\ ret.status = "running"
    /\ ret.pc = "makedirs"
    /\ IF args.switch_files_root.is_none
       THEN /\ ret' = Raise("AttributeError")
            /\ fs' = fs
       ELSE \E inputs_folder \in {makedirs(fs, <<args.switch_files_root.path, "inputs">>)} :
            IF inputs_folder.status # "ok"
            THEN /\ ret' = Raise(inputs_folder.status)
                 /\ fs' = [fs EXCEPT !.dirs = inputs_folder.dirs]
            ELSE \E switchwrapper_inputs_folder \in
                    {makedirs([fs EXCEPT !.dirs = inputs_folder.dirs],
                              <<args.switch_files_root.path, "switchwrapper_inputs">>)} :
                 /\ ret' = IF switchwrapper_inputs_folder.status = "ok"
                           THEN [ret EXCEPT !.pc = "grid_to_switch"]
                           ELSE Raise(switchwrapper_inputs_folder.status)
                 /\ fs' = [fs EXCEPT !.dirs = switchwrapper_inputs_folder.dirs]
    /\ UNCHANGED <<call, switch_plant_ids, ref_last_original_plant_id, plant_ids,
                   switch_branch_ids, grid, build_gen, build_tx, build_storage_energy, args>>

\* grid_to_switch(grid, inputs_folder, storage_candidate_buses): the
\* function of grid_to_switch.py is grid_to_switch(grid, outputfolder), so
\* the call with three arguments raises TypeError before any statement of
\* its body runs.  The folders made before stay, no file is written, and
\* the statements of prepare_inputs after the call (profiles_to_switch,
\* write_version_file, write_modules, the saved inputs) are never reached.
PrepareGridToSwitch ==
    /\ call = "prepare_inputs"
    /\ ret.status = "running"
    /\ ret.pc = "grid_to_switch"
    /\ ret' = Raise("TypeError")
    /\ UNCHANGED <<call, switch_plant_ids, ref_last_original_plant_id, plant_ids,
                   switch_branch_ids, grid, build_gen, build_tx, build_storage_energy, args, fs>>

\* The folder the tables of profiles_to_switch are written to.
OutputFolder == args.output_folder

\* profiles_to_switch(grid, profiles, timepoints, timestamp_to_timepoints,
\*                    output_folder)
CallProfilesToSwitch ==
    /\ call = "none"
    /\ call' = "profiles_to_switch"
    /\ ret' = [status |-> "running", pc |-> "loads", built |-> {}]
    /\ UNCHANGED <<switch_plant_ids, ref_last_original_plant_id, plant_ids,
                   switch_branch_ids, grid, build_gen, build_tx, build_storage_energy, args, fs>>

\* DataFrame.to_csv(os.path.join(folder, name)): the file is written, or
\* FileNotFoundError is raised when the folder does not exist.
to_csv(files, folder, name) ==
    IF folder \in files.dirs
    THEN [status |-> "ok", fs |-> [files EXCEPT !.files = @ \cup {Join(folder, name)}]]
    ELSE [status |-> "FileNotFoundError", fs |-> files]

\* loads = build_loads(...); loads.to_csv(loads_filepath)
ProfilesWriteLoads ==
    /\ call = "profiles_to_switch"
    /\ ret.status = "running"
    /\ ret.pc = "loads"
    /\ \E written \in {to_csv(fs, OutputFolder, "loads.csv")} :
        /\ fs' = written.fs
        /\ ret' = IF written.status = "ok"
                  THEN [ret EXCEPT !.pc = "timepoints", !.built = @ \cup {"loads"}]
                  ELSE [ret EXCEPT !.status = written.status,
                                   !.built = @ \cup {"loads"}]
    /\ UNCHANGED <<call, switch_plant_ids, ref_last_original_plant_id, plant_ids,
                   switch_branch_ids, grid, build_gen, build_tx, build_storage_energy, args>>

\* timepoints[["timestamp", "timeseries"]].to_csv(timepoints_filepath)
ProfilesWriteTimepoints ==
    /\ call = "profiles_to_switch"
    /\ ret.status = "running"
    /\ ret.pc = "timepoints"
    /\ \E written \in {to_csv(fs, OutputFolder, "timepoints.csv")} :
        /\ fs' = written.fs
        /\ ret' = IF written.status = "ok"
                  THEN [ret EXCEPT !.pc = "timeseries", !.built = @ \cup {"timepoints"}]
                  ELSE [ret EXCEPT !.status = written.status,
                                   !.built = @ \cup {"timepoints"}]
    /\ UNCHANGED <<call, switch_plant_ids, ref_last_original_plant_id, plant_ids,
                   switch_branch_ids, grid, build_gen, build_tx, build_storage_energy, args>>

\* timeseries = build_timeseries(...); timeseries.to_csv(...)
ProfilesWriteTimeseries ==
    /\ call = "profiles_to_switch"
    /\ ret.status = "running"
    /\ ret.pc = "timeseries"
    /\ \E written \in {to_csv(fs, OutputFolder, "timeseries.csv")} :
        /\ fs' = written.fs
        /\ ret' = IF written.status = "ok"
                  THEN [ret EXCEPT !.pc = "variable_capacity_factors", !.built = @ \cup {"timeseries"}]
                  ELSE [ret EXCEPT !.status = written.status,
                                   !.built = @ \cup {"timeseries"}]
    /\ UNCHANGED <<call, switch_plant_ids, ref_last_original_plant_id, plant_ids,
                   switch_branch_ids, grid, build_gen, build_tx, build_storage_energy, args>>

\* variable_capacity_factors = build_variable_capacity_factors(...);
\* variable_capacity_factors.to_csv(...), the last statement of
\* profiles_to_switch
ProfilesWriteVariableCapacityFactors ==
    /\ call = "profiles_to_switch"
    /\ ret.status = "running"
    /\ ret.pc = "variable_capacity_factors"
    /\ \E written \in {to_csv(fs, OutputFolder, "variable_capacity_factors.csv")} :
        /\ fs' = written.fs
        /\ ret' = IF written.status = "ok"
                  THEN [ret EXCEPT !.status = "ok",
                                   !.built = @ \cup {"variable_capacity_factors"}]
                  ELSE [ret EXCEPT !.status = written.status,
                                   !.built = @ \cup {"variable_capacity_factors"}]
    /\ UNCHANGED <<call, switch_plant_ids, ref_last_original_plant_id, plant_ids,
                   switch_branch_ids, grid, build_gen, build_tx, build_storage_energy, args>>

\* Standard input is a sequence of lines and then the end of the file, where
\* input() raises EOFError. A line is a str: digits, letters, blanks, signs,
\* underscores, and SuperscriptTwo, which stands for the one character ².
SuperscriptTwo == "^2"
\* str.split(): the words between the runs of blanks.
RECURSIVE split(_)
split(s) ==
    LET words(t) ==
            LET ends == {k \in 1..Len(t) : t[k] = " "} \cup {Len(t) + 1}
                end == CHOOSE k \in ends : \A e \in ends : k <= e
            IN  IF t = <<>> THEN <<>>
                ELSE <<SubSeq(t, 1, end - 1)>> \o split(SubSeq(t, end, Len(t)))
    IN  CHOOSE r \in {words(t) : t \in {lstrip(s)}} : TRUE
\* str.isdigit(): a str that is not empty and all of whose characters are
\* digits; a superscript digit is one, though int() refuses it.
isdigit(s) == s # <<>> /\ \A k \in 1..Len(s) : IsDigit(s[k]) \/ s[k] = SuperscriptTwo

\* get_base_year: [status, year, stdin], stdin the lines not read yet.
get_base_year(stdin) ==
    IF stdin = <<>> THEN [status |-> "EOFError", year |-> 0, stdin |-> stdin]
    ELSE CHOOSE r \in
            {IF ~year.ok THEN [status |-> "ValueError", year |-> 0, stdin |-> Tail(stdin)]
             ELSE [status |-> "ok", year |-> year.value, stdin |-> Tail(stdin)] :
                year \in {int(Head(stdin))}} : TRUE

\* The first loop of get_inv_periods: lines are read until isdigit() holds
\* of one, and int() of that line is the number of stages or raises
\* ValueError.
RECURSIVE ReadNumInvStages(_)
ReadNumInvStages(stdin) ==
    IF stdin = <<>> THEN [status |-> "EOFError", value |-> 0, stdin |-> stdin]
    ELSE IF isdigit(Head(stdin))
         THEN CHOOSE r \in
                {IF num_inv_stages.ok
                 THEN [status |-> "ok", value |-> num_inv_stages.value,
                       stdin |-> Tail(stdin)]
                 ELSE [status |-> "ValueError", value |-> 0, stdin |-> Tail(stdin)] :
                    num_inv_stages \in {int(Head(stdin))}} : TRUE
    ELSE ReadNumInvStages(Tail(stdin))

\* Each of the three other loops of get_inv_periods: lines are read until
\* one has num_inv_stages words of which int() takes every one.
RECURSIVE ReadYears(_, _)
ReadYears(stdin, num_inv_stages) ==
    IF stdin = <<>> THEN [status |-> "EOFError", value |-> <<>>, stdin |-> stdin]
    ELSE CHOOSE r \in
            {IF Len(years) = num_inv_stages /\ \A w \in 1..Len(years) : years[w].ok
             THEN [status |-> "ok", value |-> [w \in 1..Len(years) |-> years[w].value],
                   stdin |-> Tail(stdin)]
             ELSE ReadYears(Tail(stdin), num_inv_stages) :
                years \in {[w \in 1..Len(words) |-> int(words[w])] :
                            words \in {split(Head(stdin))}}} : TRUE

\* get_inv_periods: [status, inv_period, period_start, period_end, stdin].
get_inv_periods(stdin) ==
    LET raised(status, rest) ==
            [status |-> status, inv_period |-> <<>>, period_start |-> <<>>,
             period_end |-> <<>>, stdin |-> rest]
        ends(n, inv_period, period_start) ==
            CHOOSE r \in
                {IF period_end.status # "ok" THEN raised(period_end.status, period_end.stdin)
                 ELSE [status |-> "ok", inv_period |-> inv_period.value,
                       period_start |-> period_start.value,
                       period_end |-> period_end.value, stdin |-> period_end.stdin] :
                    period_end \in {ReadYears(period_start.stdin, n)}} : TRUE
        starts(n, inv_period) ==
            CHOOSE r \in
                {IF period_start.status # "ok"
                 THEN raised(period_start.status, period_start.stdin)
                 ELSE ends(n, inv_period, period_start) :
                    period_start \in {ReadYears(inv_period.stdin, n)}} : TRUE
        periods(num_inv_stages) ==
            CHOOSE r \in
                {IF inv_period.status # "ok"
                 THEN raised(inv_period.status, inv_period.stdin)
                 ELSE starts(num_inv_stages.value, inv_period) :
                    inv_period \in {ReadYears(num_inv_stages.stdin,
                                              num_inv_stages.value)}} : TRUE
    IN  CHOOSE r \in
            {IF num_inv_stages.status # "ok"
             THEN raised(num_inv_stages.status, num_inv_stages.stdin)
             ELSE periods(num_inv_stages) :
                num_inv_stages \in {ReadNumInvStages(stdin)}} : TRUE

\* The tables grid_to_switch writes, each to <table>.csv, in the order in
\* which it writes them.
GridToSwitchOrder ==
    <<"financials", "fuels", "fuel_cost", "generation_projects_info",
      "gen_build_costs", "gen_build_predetermined", "load_zones",
      "non_fuel_energy_source", "periods", "transmission_lines", "trans_params">>
GridToSwitchTables == {GridToSwitchOrder[k] : k \in 1..Len(GridToSwitchOrder)}

\* build_fuel_cost: (1 + interest_rate) ** (year - base_year) is a power of
\* floats, and 1.029 ** n is beyond the largest float from n = 24829 on,
\* where the power raises OverflowError.
MaxInflationYears == 24828
InflationOverflows(base_year, inv_period) ==
    \E k \in 1..Len(inv_period) : inv_period[k] - base_year > MaxInflationYears

\* The tables written one after the other from position k of the order on:
\* [status, fs, built]. The factors of inflation are computed when the
\* table of the fuel costs is built, after two tables are written.
RECURSIVE WriteTables(_, _, _, _, _, _)
WriteTables(files, folder, base_year, inv_period, k, built) ==
    IF k > Len(GridToSwitchOrder) THEN [status |-> "ok", fs |-> files, built |-> built]
    ELSE IF GridToSwitchOrder[k] = "fuel_cost" /\ InflationOverflows(base_year, inv_period)
    THEN [status |-> "OverflowError", fs |-> files, built |-> built]
    ELSE CHOOSE r \in
            {IF written.status # "ok"
             THEN [status |-> written.status, fs |-> written.fs, built |-> built]
             ELSE WriteTables(written.fs, folder, base_year, inv_period, k + 1,
                              built \cup {GridToSwitchOrder[k]}) :
                written \in {to_csv(files, folder, GridToSwitchOrder[k] \o ".csv")}} : TRUE

\* grid_to_switch(grid, outputfolder): the folder is made, the base year and
\* the investment periods are read from standard input, and only then are
\* the tables built and written. [status, fs, built, base_year, inv_period,
\* period_start, period_end, stdin].
grid_to_switch(files, names, stdin) ==
    LET raised(made, status, year, rest) ==
            [status |-> status, fs |-> made, built |-> {},
             base_year |-> year, inv_period |-> <<>>,
             period_start |-> <<>>, period_end |-> <<>>,
             stdin |-> rest]
        written(made, base_year, periods) ==
            CHOOSE r \in
                {[status |-> tables.status, fs |-> tables.fs, built |-> tables.built,
                  base_year |-> base_year.year,
                  inv_period |-> periods.inv_period,
                  period_start |-> periods.period_start,
                  period_end |-> periods.period_end,
                  stdin |-> periods.stdin] :
                    tables \in {WriteTables(made, PathOf(names), base_year.year,
                                            periods.inv_period, 1, {})}} : TRUE
        prompted(made, base_year) ==
            CHOOSE r \in
                {IF periods.status # "ok"
                 THEN raised(made, periods.status, base_year.year, periods.stdin)
                 ELSE written(made, base_year, periods) :
                    periods \in {get_inv_periods(base_year.stdin)}} : TRUE
        asked(made) ==
            CHOOSE r \in
                {IF base_year.status # "ok"
                 THEN raised(made, base_year.status, base_year.year, base_year.stdin)
                 ELSE prompted(made, base_year) :
                    base_year \in {get_base_year(stdin)}} : TRUE
    IN  CHOOSE r \in
            {IF outputfolder.status # "ok"
             THEN raised([files EXCEPT !.dirs = outputfolder.dirs],
                         outputfolder.status, 0, stdin)
             ELSE asked([files EXCEPT !.dirs = outputfolder.dirs]) :
                outputfolder \in {makedirs(files, names)}} : TRUE

\* What is typed: nothing; a base year that is no number; input that ends
\* at the second prompt, at the third after a line that is no year, and at
\* the last; one stage after a count that is re-entered; two stages after a
\* line of one year and a line with a word that is no year are re-entered;
\* a base year with a sign; lines with blanks around them, a count with a
\* sign and one with an underscore, which are re-entered, and years with an
\* underscore and a sign; a superscript digit as the count; an investment
\* year whose factor of inflation is beyond the floats, alone and behind a
\* year whose factor is not.
Transcripts ==
    LET n(y) == FormatInt(y)
        x == <<"x">>
        b == <<" ">>
    IN  {<<>>,
         <<x>>,
         <<n(2020)>>,
         <<n(2020), n(1), x>>,
         <<n(2020), n(1), n(2030), n(2030)>>,
         <<n(2020), x, n(1), n(2030), n(2030), n(2039)>>,
         <<n(2020), n(2), n(2030), n(2030) \o b \o n(2040), n(2030) \o b \o x,
           n(2030) \o b \o n(2040), n(2039) \o b \o n(2049)>>,
         <<(<<"-">> \o n(5)), n(1), n(2030), n(2030), n(2039)>>,
         <<(b \o n(2020) \o b), (b \o n(1)), (<<"+">> \o n(1)), <<"1", "_", "0">>, n(1),
           <<"2", "_", "0", "3", "0">>, (b \o n(2030) \o b \o b), (<<"+">> \o n(2039))>>,
         <<n(2020), <<SuperscriptTwo>>, n(1)>>,
         <<n(2020), n(1), n(30000), n(30000), n(30000)>>,
         <<(<<"-">> \o n(5)), n(2), n(2030) \o b \o n(30000), n(1) \o b \o n(2),
           n(3) \o b \o n(4)>>}
\* A transcript that answers every prompt at once.
TypedOnce == <<FormatInt(2020), FormatInt(1), FormatInt(2030), FormatInt(2030), FormatInt(2039)>>

\* grid_to_switch(grid, "root/inputs") called on its own, with args.stdin
\* waiting on standard input. ret holds the position of the call (pc), the
\* tables written so far, what the prompts have returned and the lines not
\* read yet.
CallGridToSwitch ==
    /\ call = "none"
    /\ call' = "grid_to_switch"
    /\ ret' = [status |-> "running", pc |-> "makedirs", built |-> {},
               base_year |-> 0, num_inv_stages |-> 0, inv_period |-> <<>>,
               period_start |-> <<>>, period_end |-> <<>>,
               typed |-> args.stdin, stdin |-> args.stdin]
    /\ UNCHANGED <<switch_plant_ids, ref_last_original_plant_id, plant_ids,
                   switch_branch_ids, grid, build_gen, build_tx, build_storage_energy, args, fs>>

\* os.makedirs(outputfolder, exist_ok=True), the first statement.
GridToSwitchMakeDirs ==
    /\ call = "grid_to_switch"
    /\ ret.status = "running"
    /\ ret.pc = "makedirs"
    /\ \E outputfolder \in {makedirs(fs, OutputNames)} :
        /\ fs' = [fs EXCEPT !.dirs = outputfolder.dirs]
        /\ ret' = IF outputfolder.status = "ok"
                  THEN [ret EXCEPT !.pc = "base_year"]
                  ELSE Raise(outputfolder.status)
    /\ UNCHANGED <<call, switch_plant_ids, ref_last_original_plant_id, plant_ids,
                   switch_branch_ids, grid, build_gen, build_tx, build_storage_energy, args>>

\* base_year = get_base_year(): one line is read, or input() raises
\* EOFError at the end of the input.
GridToSwitchBaseYear ==
    /\ call = "grid_to_switch"
    /\ ret.status = "running"
    /\ ret.pc = "base_year"
    /\ \E base_year \in {get_base_year(ret.stdin)} :
        ret' = IF base_year.status = "ok"
               THEN [ret EXCEPT !.pc = "num_inv_stages", !.base_year = base_year.year,
                                !.stdin = base_year.stdin]
               ELSE [ret EXCEPT !.status = base_year.status, !.stdin = base_year.stdin]
    /\ UNCHANGED <<call, switch_plant_ids, ref_last_original_plant_id, plant_ids,
                   switch_branch_ids, grid, build_gen, build_tx, build_storage_energy, args, fs>>

\* One input() of get_inv_periods and what its loop does with the line: the
\* call stays at the prompt when the line is refused, and goes on to the
\* next prompt, or behind the last to the first table, when it is taken.
GridToSwitchInvPeriods ==
    /\ call = "grid_to_switch"
    /\ ret.status = "running"
    /\ ret.pc \in {"num_inv_stages", "inv_period", "period_start", "period_end"}
    /\ IF ret.stdin = <<>> THEN ret' = Raise("EOFError")
       ELSE IF ret.pc = "num_inv_stages"
       THEN \E num_inv_stages \in {int(Head(ret.stdin))} :
            ret' = IF ~isdigit(Head(ret.stdin))
                   THEN [ret EXCEPT !.stdin = Tail(@)]
                   ELSE IF ~num_inv_stages.ok
                   THEN [ret EXCEPT !.status = "ValueError", !.stdin = Tail(@)]
                   ELSE [ret EXCEPT !.pc = "inv_period", !.stdin = Tail(@),
                                    !.num_inv_stages = num_inv_stages.value]
       ELSE \E words \in {split(Head(ret.stdin))} :
            \E years \in {[w \in 1..Len(words) |-> int(words[w])]} :
            ret' = IF Len(years) # ret.num_inv_stages \/ \E w \in 1..Len(years) : ~years[w].ok
                   THEN [ret EXCEPT !.stdin = Tail(@)]
                   ELSE [ret EXCEPT
                            !.stdin = Tail(@),
                            ![ret.pc] = [w \in 1..Len(years) |-> years[w].value],
                            !.pc = CASE ret.pc = "inv_period" -> "period_start"
                                     [] ret.pc = "period_start" -> "period_end"
                                     [] ret.pc = "period_end" -> GridToSwitchOrder[1]]
    /\ UNCHANGED <<call, switch_plant_ids, ref_last_original_plant_id, plant_ids,
                   switch_branch_ids, grid, build_gen, build_tx, build_storage_energy, args, fs>>

\* One table is built and written with to_csv, in the order of the source.
\* linearize_gencost and calculate_average_fuel_cost run before the first
\* table; the grid is well formed, so neither raises. build_fuel_cost raises
\* OverflowError when a factor of inflation is beyond the floats.
GridToSwitchWrite ==
    /\ call = "grid_to_switch"
    /\ ret.status = "running"
    /\ ret.pc \in GridToSwitchTables
    /\ \E k \in 1..Len(GridToSwitchOrder) :
        /\ GridToSwitchOrder[k] = ret.pc
        /\ IF ret.pc = "fuel_cost" /\ InflationOverflows(ret.base_year, ret.inv_period)
           THEN /\ ret' = Raise("OverflowError")
                /\ fs' = fs
           ELSE \E written \in {to_csv(fs, PathOf(OutputNames), ret.pc \o ".csv")} :
                /\ fs' = written.fs
                /\ ret' = IF written.status # "ok" THEN Raise(written.status)
                          ELSE IF k = Len(GridToSwitchOrder)
                          THEN [ret EXCEPT !.status = "ok", !.built = @ \cup {ret.pc}]
                          ELSE [ret EXCEPT !.pc = GridToSwitchOrder[k + 1],
                                           !.built = @ \cup {ret.pc}]
    /\ UNCHANGED <<call, switch_plant_ids, ref_last_original_plant_id, plant_ids,
                   switch_branch_ids, grid, build_gen, build_tx, build_storage_energy, args>>

\* grid_to_switch on every transcript, with no folder, with the folders,
\* with a file named root and with a file in the place of root/inputs.
InitGridToSwitch ==
    /\ call = "none"
    /\ switch_plant_ids = <<>>
    /\ ref_last_original_plant_id = None
    /\ plant_ids = <<>>
    /\ switch_branch_ids = <<>>
    /\ NoTables
    /\ ret = <<>>
    /\ fs \in {[dirs |-> {}, files |-> {}],
                [dirs |-> {"root", Join("root", "inputs")}, files |-> {}],
                [dirs |-> {}, files |-> {"root"}],
                [dirs |-> {"root"}, files |-> {Join("root", "inputs")}]}
    /\ \E stdin \in Transcripts :
        args = [stdin |-> stdin, existing |-> fs.dirs, files |-> fs.files]
NextGridToSwitch ==
    \/ CallGridToSwitch
    \/ GridToSwitchMakeDirs
    \/ GridToSwitchBaseYear
    \/ GridToSwitchInvPeriods
    \/ GridToSwitchWrite
SpecGridToSwitch == InitGridToSwitch /\ [][NextGridToSwitch]_vars

\* The steps of a call that has ended make what grid_to_switch returns.
StepsMakeGridToSwitch ==
    (call = "grid_to_switch" /\ ret.status # "running") =>
        \E done \in {grid_to_switch([dirs |-> args.existing, files |-> args.files],
                                     OutputNames, args.stdin)} :
            /\ ret.status = done.status
            /\ fs = done.fs
            /\ ret.built = done.built
            /\ ret.stdin = done.stdin
            /\ ret.status = "ok" =>
                /\ ret.base_year = done.base_year
                /\ ret.inv_period = done.inv_period
                /\ ret.period_start = done.period_start
                /\ ret.period_end = done.period_end

\* open(os.path.join(folder, name), "w") and the write: the file is made,
\* or FileNotFoundError is raised when the folder does not exist.
open_w(files, folder, name) ==
    IF folder \in files.dirs
    THEN [status |-> "ok", fs |-> [files EXCEPT !.files = @ \cup {Join(folder, name)}]]
    ELSE [status |-> "FileNotFoundError", fs |-> files]

\* write_modules(folder), on the root folder or on the folder of the inputs.
CallWriteModules ==
    /\ call = "none"
    /\ call' = "write_modules"
    /\ \E k \in 1..Len(OutputNames) :
        \E written \in {open_w(fs, PathOf(SubSeq(OutputNames, 1, k)), "modules.txt")} :
            /\ fs' = written.fs
            /\ ret' = [status |-> written.status,
                       folder |-> PathOf(SubSeq(OutputNames, 1, k))]
    /\ UNCHANGED <<switch_plant_ids, ref_last_original_plant_id, plant_ids,
                   switch_branch_ids, grid, build_gen, build_tx, build_storage_energy, args>>

\* write_version_file(folder), on the root folder or on the folder of the
\* inputs.
CallWriteVersionFile ==
    /\ call = "none"
    /\ call' = "write_version_file"
    /\ \E k \in 1..Len(OutputNames) :
        \E written \in {open_w(fs, PathOf(SubSeq(OutputNames, 1, k)),
                                "switch_inputs_version.txt")} :
            /\ fs' = written.fs
            /\ ret' = [status |-> written.status,
                       folder |-> PathOf(SubSeq(OutputNames, 1, k))]
    /\ UNCHANGED <<switch_plant_ids, ref_last_original_plant_id, plant_ids,
                   switch_branch_ids, grid, build_gen, build_tx, build_storage_energy, args>>

\* The calls: any timepoints table, a root folder given or not, folders
\* that exist already or not, no file, and on standard input the answers to
\* the prompts of grid_to_switch.
InitEntryPoints ==
    /\ call = "none"
    /\ switch_plant_ids = <<>>
    /\ ref_last_original_plant_id = None
    /\ plant_ids = <<>>
    /\ switch_branch_ids = <<>>
    /\ NoTables
    /\ ret = <<>>
    /\ \E timepoints \in TimepointTables,
          switch_files_root \in {NoPath, Path("root")},
          storage_candidate_buses \in {[is_none |-> TRUE, buses |-> {}],
                                       [is_none |-> FALSE, buses |-> {1}]},
          existing \in {{}, {"root", Join("root", "inputs")}} :
        /\ args = [timepoints |-> timepoints,
                   storage_candidate_buses |-> storage_candidate_buses,
                   switch_files_root |-> switch_files_root,
                   output_folder |-> PathOf(OutputNames),
                   existing |-> existing,
                   files |-> {},
                   stdin |-> TypedOnce]
        /\ fs = [dirs |-> existing, files |-> {}]
NextEntryPoints ==
    \/ CallPrepareInputs
    \/ PrepareCheckTimepoints
    \/ PrepareMakeDirs
    \/ PrepareGridToSwitch
    \/ CallProfilesToSwitch
    \/ ProfilesWriteLoads
    \/ ProfilesWriteTimepoints
    \/ ProfilesWriteTimeseries
    \/ ProfilesWriteVariableCapacityFactors
    \/ CallGridToSwitch
    \/ GridToSwitchMakeDirs
    \/ GridToSwitchBaseYear
    \/ GridToSwitchInvPeriods
    \/ GridToSwitchWrite
    \/ CallWriteModules
    \/ CallWriteVersionFile
SpecEntryPoints == InitEntryPoints /\ [][NextEntryPoints]_vars

\* C17: on both entry points, a timepoints table in which a timeseries maps
\* to more than one (period, duration) pair makes the call end with
\* ValueError while no directory has been created, no output table has
\* been built and no file has been written.
C17_InvariantCheckedEagerly ==
    (/\ call \in {"prepare_inputs", "profiles_to_switch"}
     /\ TimeseriesWithTwoPairs(args.timepoints)) =>
        /\ ret.status \in {"running", "ValueError"}
        /\ ret.built = {}
        /\ fs = [dirs |-> args.existing, files |-> {}]

(***************************************************************************)
(* grid_to_switch.py: cost linearization.  A float that may be NaN or      *)
(* infinite is [kind, value] with kind "finite", "nan" or "inf"; the other *)
(* numbers are rationals.                                                  *)
(***************************************************************************)
Finite(q) == [kind |-> "finite", value |-> q]
NaN == [kind |-> "nan", value |-> Q(0)]
Inf == [kind |-> "inf", value |-> Q(0)]
\* a / b on floats: 0 / 0 is NaN, another number / 0 is infinite.
FloatDiv(a, b) ==
    IF RatZero(b) THEN (IF RatZero(a) THEN NaN ELSE Inf) ELSE Finite(RatDiv(a, b))
\* Series.fillna(q)
fillna(x, q) == IF x.kind = "nan" THEN Finite(q) ELSE x

\* const.assumed_pmins.get(type, const.assumed_pmins["default"])
assumed_pmins(type) ==
    IF type = "coal" THEN [is_none |-> TRUE, value |-> Q(0)]
    ELSE IF type \in {"geothermal", "nuclear"}
         THEN [is_none |-> FALSE, value |-> Rat(95, 100)]
         ELSE [is_none |-> FALSE, value |-> Q(0)]

\* plant_mod.Pmin of a plant row.
PlantModPmin(x) ==
    IF ~assumed_pmins(x.type).is_none
    THEN RatMul(x.Pmax, assumed_pmins(x.type).value)
    ELSE x.Pmin

\* The row of grid.gencost["before"] with the index of the plant row.
GencostOf(g, x) ==
    g.gencost.before[CHOOSE j \in 1..Len(g.gencost.before) :
                        g.gencost.before[j].plant_id = x.plant_id]
\* c0 + c1 * p + c2 * p ** 2
CostAt(c, p) ==
    RatAdd(c.c0, RatAdd(RatMul(c.c1, p), RatMul(c.c2, RatMul(p, p))))

\* The slope of one plant as the division leaves it.
SlopeBeforeFillna(g, x) ==
    FloatDiv(RatSub(CostAt(GencostOf(g, x), x.Pmax),
                    CostAt(GencostOf(g, x), PlantModPmin(x))),
             RatSub(x.Pmax, PlantModPmin(x)))

\* The linearization without the fillna(0) of the slope.
linearize_gencost_without_fillna(g) ==
    [cost_at_min_power |->
        [i \in 1..Len(g.plant) |->
            CostAt(GencostOf(g, g.plant[i]), PlantModPmin(g.plant[i]))],
     single_segment_slope |->
        [i \in 1..Len(g.plant) |-> SlopeBeforeFillna(g, g.plant[i])]]

\* The two Series returned, in the order of the plant table.
linearize_gencost(g) ==
    [cost_at_min_power |->
        [i \in 1..Len(g.plant) |->
            CostAt(GencostOf(g, g.plant[i]), PlantModPmin(g.plant[i]))],
     single_segment_slope |->
        [i \in 1..Len(g.plant) |-> fillna(SlopeBeforeFillna(g, g.plant[i]), Q(0))]]

CallLinearizeGencost ==
    /\ call = "none"
    /\ call' = "linearize_gencost"
    /\ ret' = linearize_gencost(grid)
    /\ UNCHANGED <<switch_plant_ids, ref_last_original_plant_id, plant_ids,
                   switch_branch_ids, grid, build_gen, build_tx, build_storage_energy, args, fs>>

\* Plant rows: three types, Pmin <= Pmax among 0 and 20 MW, cost curves
\* with and without the linear and the quadratic term.
PlantTypes == {"coal", "ng", "nuclear"}
PlantCells ==
    {[type |-> t, Pmin |-> Q(lim[1]), Pmax |-> Q(lim[2]), c1 |-> Q(c1), c2 |-> Q(c2)] :
        t \in PlantTypes, lim \in {<<0, 0>>, <<0, 20>>, <<20, 20>>},
        c1 \in {0, 3}, c2 \in {0, 2}}
\* The grid whose plant i has id and bus i and the values of cells[i].
GridOfPlants(cells) ==
    [GridOf(Len(cells), <<0>>) EXCEPT
        !.plant = [i \in 1..Len(cells) |->
                    [plant_id |-> i, bus_id |-> i, type |-> cells[i].type,
                     Pmin |-> cells[i].Pmin, Pmax |-> cells[i].Pmax]],
        !.gencost = [before |-> [i \in 1..Len(cells) |->
                                    [plant_id |-> i, c0 |-> Q(4),
                                     c1 |-> cells[i].c1, c2 |-> cells[i].c2]],
                     after |-> @.after]]
PlantGrids ==
    {GridOfPlants(cells) : cells \in UNION {[1..n -> PlantCells] : n \in 1..MaxPlants}}

InitLinearize ==
    /\ call = "none"
    /\ switch_plant_ids = <<>>
    /\ ref_last_original_plant_id = None
    /\ plant_ids = <<>>
    /\ switch_branch_ids = <<>>
    /\ grid \in PlantGrids
    /\ build_gen = <<>>
    /\ build_tx = <<>>
    /\ build_storage_energy = <<>>
    /\ ret = <<>>
    /\ fs = NoFiles
    /\ args = <<>>
NextLinearize == CallLinearizeGencost
SpecLinearize == InitLinearize /\ [][NextLinearize]_vars

\* The minimum generation the linearization starts from: the plant's own
\* Pmin for coal, 95 % of Pmax for geothermal and nuclear, 0 otherwise.
MinimumGeneration(x) ==
    CASE x.type = "coal" -> x.Pmin
      [] x.type \in {"geothermal", "nuclear"} -> Rat(19 * x.Pmax[1], 20 * x.Pmax[2])
      [] OTHER -> Q(0)

\* C18 as stated: every plant whose Pmin equals its Pmax, whatever its type,
\* has slope exactly 0, and no slope is NaN or infinite.
C18_SlopeZeroWhenPminIsPmax ==
    call = "linearize_gencost" =>
        \A i \in 1..Len(grid.plant) :
            /\ ret.single_segment_slope[i].kind = "finite"
            /\ grid.plant[i].Pmin = grid.plant[i].Pmax =>
                    ret.single_segment_slope[i] = Finite(Q(0))

\* C18, amended: every plant whose minimum generation (own Pmin for coal,
\* the assumed share of Pmax for the other types) equals its Pmax has slope
\* exactly 0, every other plant has the slope c1 + c2 * (Pmax + minimum) of
\* the segment from its minimum generation to Pmax, and no slope is NaN or
\* infinite.
C18_SlopeZeroWhenMinimumIsPmax ==
    call = "linearize_gencost" =>
        \A i \in 1..Len(grid.plant) :
            LET x == grid.plant[i]
                c == grid.gencost.before[i]
            IN  /\ ret.single_segment_slope[i].kind = "finite"
                /\ MinimumGeneration(x) = x.Pmax =>
                        ret.single_segment_slope[i] = Finite(Q(0))
                /\ MinimumGeneration(x) # x.Pmax =>
                        ret.single_segment_slope[i] =
                            Finite(RatAdd(c.c1, RatMul(c.c2, RatAdd(x.Pmax, MinimumGeneration(x)))))

\* A coal plant running at Pmin = Pmax = 20 MW with a cost curve that is
\* not flat, a nuclear plant of capacity 0: both get slope 0.
C18_Witness ==
    /\ call = "linearize_gencost"
    /\ \E i, j \in 1..Len(grid.plant) :
        /\ grid.plant[i].type = "coal"
        /\ grid.plant[i].Pmin = Q(20)
        /\ grid.plant[i].Pmax = Q(20)
        /\ grid.gencost.before[i].c1 = Q(3)
        /\ ret.single_segment_slope[i] = Finite(Q(0))
        /\ grid.plant[j].type = "nuclear"
        /\ grid.plant[j].Pmax = Q(0)
        /\ ret.single_segment_slope[j] = Finite(Q(0))

(***************************************************************************)
(* grid_to_switch.py: the build-cost table.  grid_to_switch reads the base *)
(* year and the investment periods from the user and passes the            *)
(* investment periods, not the base year, to build_gen_build_costs.        *)
(***************************************************************************)
\* const.investment_costs_by_type[type]
investment_costs_by_type(type) ==
    CASE type = "coal" -> 5255000
      [] type = "dfo" -> 10000000
      [] type = "geothermal" -> 7696000
      [] type = "hydro" -> 5983000
      [] type = "ng" -> 1616000
      [] type = "nuclear" -> 7186000
      [] type = "other" -> 10000000
      [] type = "solar" -> 1600000
      [] type = "wind" -> 1956000
      [] type = "wind_offshore" -> 5342000

\* Row r of the table is in block (r - 1) \div N of the build years and
\* repeats position (r - 1) % N of the per-plant lists.
build_gen_build_costs(plant, cost_at_min_power, inv_period) ==
    LET N == Len(plant)
        original_plant_indices == [i \in 1..N |-> <<"g">> \o FormatInt(plant[i].plant_id)]
        overnight_costs == [i \in 1..N |-> investment_costs_by_type(plant[i].type)]
        gen_fixed_om ==
            [i \in 1..N |-> fillna(FloatDiv(cost_at_min_power[i], plant[i].Pmax), Q(0))]
        build_years == <<2019>> \o inv_period
        hypothetical_plant_indices == [i \in 1..N |-> original_plant_indices[i] \o <<"i">>]
    IN  [r \in 1..(N * Len(build_years)) |->
            LET b == ((r - 1) \div N) + 1
                i == ((r - 1) % N) + 1
            IN  [GENERATION_PROJECT |-> IF b = 1 THEN original_plant_indices[i]
                                        ELSE hypothetical_plant_indices[i],
                 build_year |-> build_years[b],
                 gen_overnight_cost |-> overnight_costs[i],
                 gen_fixed_om |-> gen_fixed_om[i]]]

\* build_gen_build_costs(grid.plant, cost_at_min_power, inv_period), with
\* cost_at_min_power the first value of linearize_gencost(grid) as its
\* caller passes it.  The function takes no base year and writes no file;
\* args.base_year is the base year of the study the call is made for.
CallBuildGenBuildCosts ==
    /\ call = "none"
    /\ call' = "build_gen_build_costs"
    /\ \E linearized \in {linearize_gencost(grid)} :
        ret' = build_gen_build_costs(grid.plant, linearized.cost_at_min_power,
                                     args.inv_period)
    /\ UNCHANGED <<switch_plant_ids, ref_last_original_plant_id, plant_ids,
                   switch_branch_ids, grid, build_gen, build_tx, build_storage_energy, args, fs>>

\* The grid g with the plant ids ids, in this order.
WithPlantIds(g, ids) ==
    [g EXCEPT
        !.plant = [i \in 1..Len(@) |-> [@[i] EXCEPT !.plant_id = ids[i]]],
        !.gencost = [before |-> [i \in 1..Len(@.before) |->
                                    [@.before[i] EXCEPT !.plant_id = ids[i]]],
                     after |-> [i \in 1..Len(@.after) |->
                                    [@.after[i] EXCEPT !.plant_id = ids[i]]]]]
\* Plants of every type with capacity 0 or 20 MW, with the ids 1, 2, ...
\* or the ids 7, 4, ... (not in the order of the rows).
TypedPlantCells ==
    {c \in PlantCells : c.Pmin = Q(0) /\ c.c1 = Q(3) /\ c.c2 = Q(2)}
TypedPlantGrids ==
    UNION {{WithPlantIds(GridOfPlants(cells), ids) :
                cells \in [1..n -> TypedPlantCells],
                ids \in {[i \in 1..n |-> i], [i \in 1..n |-> 10 - 3 * i]}} :
           n \in 1..MaxPlants}
\* The investment periods: none, one, or both years in order.
InvPeriods == {<<>>, <<2030>>, <<2040>>, <<2030, 2040>>}
BaseYears == {2019, 2020}

InitBuildCosts ==
    /\ call = "none"
    /\ switch_plant_ids = <<>>
    /\ ref_last_original_plant_id = None
    /\ plant_ids = <<>>
    /\ switch_branch_ids = <<>>
    /\ grid \in TypedPlantGrids
    /\ build_gen = <<>>
    /\ build_tx = <<>>
    /\ build_storage_energy = <<>>
    /\ ret = <<>>
    /\ fs = NoFiles
    /\ \E base_year \in BaseYears, inv_period \in InvPeriods :
        args = [base_year |-> base_year, inv_period |-> inv_period]
NextBuildCosts == CallBuildGenBuildCosts
SpecBuildCosts == InitBuildCosts /\ [][NextBuildCosts]_vars

\* The row is a row of the plant x: it carries the tag of x or of its
\* expansion.
RowOfPlant(row, x) ==
    row.GENERATION_PROJECT \in {ExistingTag(x.plant_id), ExpansionTag(x.plant_id)}

\* C19: the build-cost table has one row per plant per build year, the
\* build years being the base year of the study followed by the investment
\* years: N * (1 + P) rows, each (plant, build year) exactly once, and every
\* row carries the overnight cost of the type of its plant.
C19_OneRowPerPlantPerBuildYear ==
    call = "build_gen_build_costs" =>
        LET N == Len(grid.plant)
            build_years == <<args.base_year>> \o args.inv_period
        IN  /\ Len(ret) = N * (1 + Len(args.inv_period))
            /\ \A i \in 1..N, k \in 1..Len(build_years) :
                Cardinality({r \in 1..Len(ret) :
                                /\ RowOfPlant(ret[r], grid.plant[i])
                                /\ ret[r].build_year = build_years[k]}) = 1
            /\ \A r \in 1..Len(ret) :
                \E i \in 1..N :
                    /\ RowOfPlant(ret[r], grid.plant[i])
                    /\ ret[r].gen_overnight_cost =
                            investment_costs_by_type(grid.plant[i].type)

(***************************************************************************)
(* grid_to_switch.py: the generation projects table.                       *)
(***************************************************************************)
\* const.fuel_mapping[type]
fuel_mapping(type) ==
    CASE type \in {"wind", "wind_offshore"} -> "Wind"
      [] type = "solar" -> "Solar"
      [] type = "hydro" -> "Water"
      [] type = "geothermal" -> "Geothermal"
      [] type = "coal" -> "Coal"
      [] type = "ng" -> "NaturalGas"
      [] type = "nuclear" -> "Uranium"
      [] type = "dfo" -> "Petroleum"
      [] type = "other" -> "Other"
      [] type = "storage" -> "Electricity"
\* const.assumed_capacity_limits.get(type, default)
assumed_capacity_limits(type) == IF type = "coal" THEN 0 ELSE 5000
\* const.assumed_ages_by_type.get(type, default)
assumed_ages_by_type(type) ==
    CASE type = "hydro" -> 60
      [] type \in {"coal", "nuclear"} -> 40
      [] OTHER -> 20
baseload_types == {"coal", "nuclear"}
variable_types == {"hydro", "solar", "wind", "wind_offshore"}
\* const.assumed_fuel_share_of_gencost
assumed_fuel_share_of_gencost == Rat(7, 10)

\* A float times a number, a float divided by a number.
FloatMul(x, q) == IF x.kind = "finite" THEN Finite(RatMul(x.value, q)) ELSE x
FloatOver(x, q) == IF x.kind = "finite" THEN FloatDiv(x.value, q) ELSE x

\* calculate_average_fuel_cost: the mean GenFuelCost of the plants of the
\* bus and the fuel.
AverageFuelCost(plant, bus_id, fuel) ==
    LET rows == {i \in 1..Len(plant) :
                    plant[i].bus_id = bus_id /\ fuel_mapping(plant[i].type) = fuel}
    IN  RatDiv(RatSum([i \in 1..Len(plant) |-> plant[i].GenFuelCost], rows),
               Q(Cardinality(rows)))
\* The values of const.fuel_mapping in the order of str.
FuelsSorted ==
    <<"Coal", "Electricity", "Geothermal", "NaturalGas", "Other", "Petroleum",
      "Solar", "Uranium", "Water", "Wind">>
FuelRank(fuel) == CHOOSE k \in 1..Len(FuelsSorted) : FuelsSorted[k] = fuel
\* The order of the group keys (bus_id, fuel) of groupby, which sorts them.
GroupLess(a, b) ==
    \/ a.bus_id < b.bus_id
    \/ a.bus_id = b.bus_id /\ FuelRank(a.fuel) < FuelRank(b.fuel)
\* plant[["bus_id", "fuel", "GenFuelCost"]].groupby(["bus_id", "fuel"]).mean():
\* one row per distinct (bus_id, fuel), the rows sorted by (bus_id, fuel).
calculate_average_fuel_cost(plant) ==
    LET groups == {[bus_id |-> plant[i].bus_id, fuel |-> fuel_mapping(plant[i].type)] :
                     i \in 1..Len(plant)}
        group(k) == CHOOSE g \in groups :
                        Cardinality({h \in groups : GroupLess(h, g)}) = k - 1
    IN  [k \in 1..Cardinality(groups) |->
            [bus_id |-> group(k).bus_id, fuel |-> group(k).fuel,
             GenFuelCost |-> AverageFuelCost(plant, group(k).bus_id, group(k).fuel)]]
\* average_fuel_cost.loc[(bus_id, fuel), "GenFuelCost"]
FuelCostAt(average_fuel_cost, bus_id, fuel) ==
    average_fuel_cost[CHOOSE j \in 1..Len(average_fuel_cost) :
                        /\ average_fuel_cost[j].bus_id = bus_id
                        /\ average_fuel_cost[j].fuel = fuel].GenFuelCost

\* The row of the table with identifier tag for the plant at position i.
ProjectRow(plant, single_segment_slope, average_fuel_cost, i, tag) ==
    LET x == plant[i]
        fuel_gencost == FloatMul(single_segment_slope[i], assumed_fuel_share_of_gencost)
        nonfuel_gencost ==
            FloatMul(single_segment_slope[i], RatSub(Q(1), assumed_fuel_share_of_gencost))
        fuel_cost_per_generator ==
            FuelCostAt(average_fuel_cost, x.bus_id, fuel_mapping(x.type))
    IN  [GENERATION_PROJECT |-> tag,
         gen_tech |-> x.type,
         gen_tech_zone |-> x.bus_id,
         gen_connect_cost_per_mw |-> 0,
         gen_capacity_limit_mw |-> assumed_capacity_limits(x.type),
         gen_full_load_heat_rate |->
            fillna(FloatOver(fuel_gencost, fuel_cost_per_generator), Q(0)),
         gen_variable_om |-> nonfuel_gencost,
         gen_max_age |-> assumed_ages_by_type(x.type),
         gen_min_build_capacity |-> 0,
         gen_scheduled_outage_rate |-> 0,
         gen_forced_outage_rate |-> 0,
         gen_is_variable |-> IF x.type \in variable_types THEN 1 ELSE 0,
         gen_is_baseload |-> IF x.type \in baseload_types THEN 1 ELSE 0,
         gen_is_cogen |-> 0,
         gen_energy_source |-> fuel_mapping(x.type),
         gen_unit_size |-> ".",
         gen_ccs_capture_efficiency |-> ".",
         gen_ccs_energy_load |-> ".",
         gen_storage_efficiency |-> ".",
         gen_store_to_release_ratio |-> "."]

\* The table with the identifiers made of the row numbers, not the ids.
build_generation_projects_info_by_row(plant, single_segment_slope, average_fuel_cost) ==
    LET N == Len(plant)
    IN  [r \in 1..(2 * N) |->
            IF r <= N
            THEN ProjectRow(plant, single_segment_slope, average_fuel_cost, r,
                            <<"g">> \o FormatInt(r))
            ELSE ProjectRow(plant, single_segment_slope, average_fuel_cost, r - N,
                            (<<"g">> \o FormatInt(r - N)) \o <<"i">>)]

\* Every column is a list over the plants, repeated twice; the identifiers
\* are the original indices followed by the hypothetical ones.
build_generation_projects_info(plant, single_segment_slope, average_fuel_cost) ==
    LET N == Len(plant)
        original_plant_indices == [i \in 1..N |-> <<"g">> \o FormatInt(plant[i].plant_id)]
        hypothetical_plant_indices == [i \in 1..N |-> original_plant_indices[i] \o <<"i">>]
        all_plant_indices == original_plant_indices \o hypothetical_plant_indices
    IN  [r \in 1..(2 * N) |->
            ProjectRow(plant, single_segment_slope, average_fuel_cost,
                       IF r <= N THEN r ELSE r - N, all_plant_indices[r])]

\* build_generation_projects_info(grid.plant, single_segment_slope,
\* average_fuel_cost), its arguments the values of linearize_gencost(grid)
\* and calculate_average_fuel_cost(grid.plant).  The function writes no file.
CallBuildGenerationProjectsInfo ==
    /\ call = "none"
    /\ call' = "build_generation_projects_info"
    /\ \E linearized \in {linearize_gencost(grid)},
          average_fuel_cost \in {calculate_average_fuel_cost(grid.plant)} :
        ret' = build_generation_projects_info(grid.plant,
                    linearized.single_segment_slope, average_fuel_cost)
    /\ UNCHANGED <<switch_plant_ids, ref_last_original_plant_id, plant_ids,
                   switch_branch_ids, grid, build_gen, build_tx, build_storage_energy, args, fs>>

\* Plants of 20 MW of four types on bus 1 or 2, with fuel cost 0 or 2, and
\* the ids 1, 2, ... or 7, 4, ...
ProjectCells ==
    {[type |-> t, bus_id |-> b, GenFuelCost |-> Q(f)] :
        t \in PlantTypes \cup {"solar"}, b \in 1..2, f \in {0, 2}}
ProjectGridOf(cells, ids) ==
    [GridOf(Len(cells), <<0>>) EXCEPT
        !.plant = [i \in 1..Len(cells) |->
                    [plant_id |-> ids[i], bus_id |-> cells[i].bus_id,
                     type |-> cells[i].type, Pmin |-> Q(10), Pmax |-> Q(20),
                     GenFuelCost |-> cells[i].GenFuelCost]],
        !.gencost = [before |-> [i \in 1..Len(cells) |->
                                    [plant_id |-> ids[i], c0 |-> Q(4),
                                     c1 |-> Q(3), c2 |-> Q(2)]],
                     after |-> [i \in 1..Len(cells) |->
                                    [plant_id |-> ids[i], c0 |-> Q(4),
                                     c1 |-> Q(3), c2 |-> Q(2)]]]]
ProjectGrids ==
    UNION {{ProjectGridOf(cells, ids) :
                cells \in [1..n -> ProjectCells],
                ids \in {[i \in 1..n |-> i], [i \in 1..n |-> 10 - 3 * i]}} :
           n \in 1..MaxPlants}

InitProjects ==
    /\ call = "none"
    /\ switch_plant_ids = <<>>
    /\ ref_last_original_plant_id = None
    /\ plant_ids = <<>>
    /\ switch_branch_ids = <<>>
    /\ grid \in ProjectGrids
    /\ build_gen = <<>>
    /\ build_tx = <<>>
    /\ build_storage_energy = <<>>
    /\ ret = <<>>
    /\ fs = NoFiles
    /\ args = <<>>
NextProjects == CallBuildGenerationProjectsInfo
SpecProjects == InitProjects /\ [][NextProjects]_vars

\* C20: for N plants the generation projects table has exactly 2N rows;
\* row i carries g<id_i> and row N+i carries g<id_i>i, both are rows of
\* plant i (its type and its bus), and the two rows agree on every column
\* other than GENERATION_PROJECT.
C20_TwoRowsPerPlant ==
    call = "build_generation_projects_info" =>
        LET N == Len(grid.plant)
        IN  /\ Len(ret) = 2 * N
            /\ \A i \in 1..N :
                /\ ret[i].GENERATION_PROJECT = ExistingTag(grid.plant[i].plant_id)
                /\ ret[N + i].GENERATION_PROJECT = ExpansionTag(grid.plant[i].plant_id)
                /\ ret[i].gen_tech = grid.plant[i].type
                /\ ret[i].gen_tech_zone = grid.plant[i].bus_id
                /\ [ret[N + i] EXCEPT !.GENERATION_PROJECT = ret[i].GENERATION_PROJECT]
                        = ret[i]

\* Two plants of different types whose ids are not their row numbers.
C20_Witness ==
    /\ call = "build_generation_projects_info"
    /\ Len(grid.plant) = 2
    /\ grid.plant[1].plant_id = 7
    /\ grid.plant[1].type # grid.plant[2].type
    /\ Len(ret) = 4
    /\ ret[3].GENERATION_PROJECT = <<"g", "7", "i">>
    /\ ret[3].gen_tech = grid.plant[1].type
    /\ ret[3].gen_variable_om # ret[4].gen_variable_om

(***************************************************************************)
(* Claims on slices of the solver's tags and on the upgraded tables.       *)
(***************************************************************************)
OnlyHypotheticalTags(tags) ==
    Len(tags) >= 1 /\ \A j \in 1..Len(tags) : IsHypotheticalTag(tags[j])

\* C30: recover_plant_indices with a reference r on a list that holds only
\* hypothetical tags succeeds and gives the k-th tag the id r + k in the
\* map of its kind, the id the tag has in a call on the list that starts
\* with the existing tag g<r>.
C30_SliceWithoutExistingTags ==
    (Recovered /\ ref_last_original_plant_id # None
        /\ OnlyHypotheticalTags(switch_plant_ids)) =>
        LET tags == switch_plant_ids
            r == ref_last_original_plant_id
            full == recover_plant_indices(<<ExistingTag(r)>> \o tags, None)
        IN  /\ ret.status = "ok"
            /\ \A k \in 1..Len(tags) :
                /\ IsExpansionTag(tags[k]) =>
                    MapsTo(ret.plant, r + k, tags[k]) /\ MapsTo(full.plant, r + k, tags[k])
                /\ IsStorageTag(tags[k]) =>
                    MapsTo(ret.storage, r + k, tags[k]) /\ MapsTo(full.storage, r + k, tags[k])

PlantIdsOf(plant) == [j \in 1..Len(plant) |-> plant[j].plant_id]

\* C23: after add_gen_upgrades_to_grid has returned, on a table that holds
\* for every plant of the grid its existing tag and a decision on its
\* expansion, in whatever order, the plant ids of the grid are pairwise
\* distinct, the rows of the original plants stand
\* unchanged, every row added has an id above every original plant id, and
\* gencost["before"] holds one row per plant, under the same ids.
C23_PlantTableInvariantKept ==
    (GenApplied /\ CompleteGenTable /\ ret.status = "ok") =>
        LET n == Len(grid.plant)
            new == ret.grid.plant
        IN  /\ Distinct(PlantIdsOf(new))
            /\ Len(new) >= n
            /\ SubSeq(new, 1, n) = grid.plant
            /\ \A j \in (n + 1)..Len(new), k \in 1..n :
                    new[j].plant_id > grid.plant[k].plant_id
            /\ PlantIdsOf(ret.grid.gencost.before) = PlantIdsOf(new)

\* No decision of the year with a positive capacity names a branch that
\* joins the bus pair of branch row j.
NoUpgradeOfYear(j, year) ==
    \A r \in 1..Len(build_tx) :
        (build_tx[r].year = year /\ build_tx[r].capacity > 0) =>
            \A i \in ParallelSet(j) : build_tx[r].tx_id # AcTag(grid.branch[i].branch_id)

\* C24: add_tx_upgrades_to_grid adds and removes no branch and changes no
\* branch id, from_bus_id or to_bus_id; an AC branch whose parallel group has
\* no decision of positive capacity in the year keeps its rateA and x, so a
\* decision of capacity 0 and a decision of another year change nothing.
C24_TxUpgradeFrame ==
    TxApplied =>
        /\ Len(ret.grid.branch) = Len(grid.branch)
        /\ \A j \in 1..Len(grid.branch) :
            /\ ret.grid.branch[j].branch_id = grid.branch[j].branch_id
            /\ ret.grid.branch[j].from_bus_id = grid.branch[j].from_bus_id
            /\ ret.grid.branch[j].to_bus_id = grid.branch[j].to_bus_id
            /\ NoUpgradeOfYear(j, ret.year) =>
                /\ ret.grid.branch[j].rateA = grid.branch[j].rateA
                /\ ret.grid.branch[j].x = grid.branch[j].x

\* A decision of capacity 0 in the year and a positive one of another year,
\* both on positively rated branches: the branch table is as it was.
C24_Witness ==
    /\ TxApplied
    /\ ret.status = "ok"
    /\ \E r, q \in 1..Len(build_tx) :
        /\ build_tx[r].year = ret.year
        /\ build_tx[r].capacity = 0
        /\ build_tx[r].tx_id = AcTag(12)
        /\ build_tx[q].year # ret.year
        /\ build_tx[q].capacity > 0
        /\ build_tx[q].tx_id = AcTag(11)
    /\ ret.grid.branch = grid.branch

(* add_tx_upgrades_to_grid on a grid with branches of rateA = 0: branch 15 *)
(* is parallel to the rated branch 11, branch 13 is alone on its bus pair. *)
ZeroRatedBranches ==
    <<GridBranch(11, 1, 2, 100, 1), GridBranch(13, 3, 4, 0, 3),
      GridBranch(15, 2, 1, 0, 5)>>
ZeroRatedTxRows ==
    {[year |-> y, tx_id |-> AcTag(b), capacity |-> c] :
        y \in Years, b \in {11, 13, 15}, c \in {0, 30, 60}}
RECURSIVE ZeroRatedTxTablesOfLen(_)
ZeroRatedTxTablesOfLen(n) ==
    IF n = 0 THEN {<<>>}
    ELSE {t \in {Append(p[1], p[2]) : p \in ZeroRatedTxTablesOfLen(n - 1) \X ZeroRatedTxRows} :
            DistinctTx(t)}
InitAddTxZero ==
    /\ call = "none"
    /\ switch_plant_ids = <<>>
    /\ ref_last_original_plant_id = None
    /\ plant_ids = <<>>
    /\ switch_branch_ids = <<>>
    /\ grid = [GridOf(1, <<0>>) EXCEPT !.branch = ZeroRatedBranches]
    /\ build_gen = <<>>
    /\ build_tx \in UNION {ZeroRatedTxTablesOfLen(n) : n \in 1..MaxTxRows}
    /\ build_storage_energy = <<>>
    /\ ret = <<>>
    /\ fs = NoFiles
    /\ args = <<>>
NextAddTxZero == CallAddTxUpgradesToGrid
SpecAddTxZero == InitAddTxZero /\ [][NextAddTxZero]_vars

\* A rational with a non-zero denominator: neither NaN nor infinite.
IsFiniteRat(q) == q[2] > 0
\* No decision of the year with a positive capacity names a positively rated
\* branch that joins the bus pair of branch row j.
NoRatedUpgradeOfYear(j, year) ==
    \A r \in 1..Len(build_tx) :
        (build_tx[r].year = year /\ build_tx[r].capacity > 0) =>
            \A i \in ParallelSet(j) :
                RatPos(grid.branch[i].rateA) =>
                    build_tx[r].tx_id # AcTag(grid.branch[i].branch_id)

\* C25: branches of rateA = 0 are left out of the scaling. Decisions on such
\* branches change no rateA and no x, alone or parallel to a rated branch; a
\* branch of rateA = 0 keeps rateA = 0 and its x also when a parallel rated
\* branch is upgraded; every rateA and x written is a finite number.
C25_ZeroRatedBranchesExcluded ==
    TxApplied =>
        /\ ret.status = "ok"
        /\ \A j \in 1..Len(grid.branch) :
            /\ IsFiniteRat(ret.grid.branch[j].rateA)
            /\ IsFiniteRat(ret.grid.branch[j].x)
            /\ RatZero(grid.branch[j].rateA) =>
                /\ RatZero(ret.grid.branch[j].rateA)
                /\ ret.grid.branch[j].x = grid.branch[j].x
            /\ NoRatedUpgradeOfYear(j, ret.year) =>
                /\ ret.grid.branch[j].rateA = grid.branch[j].rateA
                /\ ret.grid.branch[j].x = grid.branch[j].x

\* Branch 11 and its parallel branch 15 of rateA = 0 are both upgraded in the
\* year: 11 is scaled by its own upgrade alone and 15 is as it was.
C25_Witness ==
    /\ TxApplied
    /\ \E r, q \in 1..Len(build_tx) :
        /\ build_tx[r].year = ret.year /\ build_tx[q].year = ret.year
        /\ build_tx[r].tx_id = AcTag(11) /\ build_tx[q].tx_id = AcTag(15)
        /\ build_tx[r].capacity = 30 /\ build_tx[q].capacity = 60
    /\ ret.grid.branch[1].rateA = Q(130)
    /\ ret.grid.branch[1].x = Rat(1, 13)
    /\ ret.grid.branch[3] = grid.branch[3]

\* The table holds a decision of positive capacity in the year on a DC line
\* that the grid does not have.
AbsentDcDecision(year) ==
    \E r \in 1..Len(build_tx), d \in 0..MaxBranchId :
        /\ build_tx[r].tx_id = DcTag(d)
        /\ build_tx[r].year = year
        /\ build_tx[r].capacity > 0
        /\ \A j \in 1..Len(grid.dcline) : grid.dcline[j].dcline_id # d

\* C29: a decision that names a transmission line absent from the grid makes
\* add_tx_upgrades_to_grid raise a lookup error: no upgraded grid is
\* returned for the year, and the decision is neither dropped nor applied to
\* another line.
C29_AbsentEntityRaises ==
    (TxApplied /\ AbsentDcDecision(ret.year)) => ret.status # "ok"

(* parse_timepoints on solutions that hold DispatchGen for two projects    *)
(* and DispatchTx for a line with two parameters, and on tables that map   *)
(* several timestamps to a timepoint or list the timepoints out of order.  *)
ExpandKeys ==
    {VariableKey(DispatchGenName, ExistingTag(g), tp) : g \in 1..2, tp \in 1..2}
        \cup {VariableKey(DispatchTxName, <<"1", ",", "2">>, tp) : tp \in 1..2}
RECURSIVE ExpandDictsOfLen(_)
ExpandDictsOfLen(n) ==
    IF n = 0 THEN {<<>>}
    ELSE {d \in {Append(p[1], [k |-> p[2], v |-> 10 * Len(p[1]) + 5]) :
                    p \in ExpandDictsOfLen(n - 1) \X ExpandKeys} :
            \A i, j \in 1..Len(d) : d[i].k = d[j].k => i = j}
InitExpandTimepoints ==
    /\ call = "none"
    /\ switch_plant_ids = <<>>
    /\ ref_last_original_plant_id = None
    /\ plant_ids = <<>>
    /\ switch_branch_ids = <<>>
    /\ NoTables
    /\ ret = <<>>
    /\ fs = NoFiles
    /\ \E var_dict \in UNION {ExpandDictsOfLen(n) : n \in 0..MaxVariables},
          variables \in {<<DispatchGenName>>, <<DispatchTxName, DispatchGenName>>},
          tps \in {<<1, 1, 2>>, <<2, 1>>},
          value_name \in ValueNames :
            args = [var_dict |-> var_dict, variables |-> variables,
                    timestamps_to_timepoints |->
                        [t \in 1..Len(tps) |-> [timestamp |-> t, timepoint |-> tps[t]]],
                    value_name |-> value_name]
NextExpandTimepoints == CallParseTimepoints
SpecExpandTimepoints == InitExpandTimepoints /\ [][NextExpandTimepoints]_vars

\* The strings that start behind "Name[" in key: the candidates for the
\* params of the entry.
EntryParams(name, key) ==
    {SubSeq(key, Len(name) + 2, c) : c \in (Len(name) + 1)..Len(key)}

\* C26: parse_timepoints expands timepoints to timestamps. The frame of a
\* variable that is found has one row per timestamp of the table, in the
\* order of the table; the row of timestamp t holds in column P the value of
\* the entry Name[P,tp] for the timepoint tp of t, where tp is the last
\* comma-separated field of the key and the label P of the column is the str
\* of the fields before it, joined by commas in their order; and every
\* column is the P of such an entry.
C26_TimepointsExpandToTimestamps ==
    (call = "parse_timepoints" /\ ret.status = "ok") =>
        \A name \in Requested :
            LET value == DictGet(ret.parsed_data, name)
                table == args.timestamps_to_timepoints
                Entries == 1..Len(args.var_dict)
            IN  ~value.is_none =>
                /\ Len(value.df.index) = Len(table)
                /\ Len(value.df.values) = Len(table)
                /\ \A t \in 1..Len(table) :
                    /\ value.df.index[t] = table[t].timestamp
                    /\ \A j \in Entries :
                        \A P \in EntryParams(name, args.var_dict[j].k) :
                            args.var_dict[j].k = VariableKey(name, P, table[t].timepoint) =>
                                \E c \in 1..Len(value.df.columns) :
                                    /\ value.df.columns[c] = StrLabel(P)
                                    /\ value.df.values[t][c] = ValueCell(args.var_dict[j].v)
                /\ \A c \in 1..Len(value.df.columns) :
                    \E j \in Entries, tp \in 1..MaxTimepoints :
                        \E P \in EntryParams(name, args.var_dict[j].k) :
                            /\ value.df.columns[c] = StrLabel(P)
                            /\ args.var_dict[j].k = VariableKey(name, P, tp)

\* The expansion itself, with the params read from the second level of the
\* label the code gives a column: the cell of timestamp t and of the column
\* (value_name, P) is the value of the entry Name[P,tp], and every column
\* has the label (value_name, P) of an entry.
ExpandsUnderTupleLabels ==
    (call = "parse_timepoints" /\ ret.status = "ok") =>
        \A name \in Requested :
            LET value == DictGet(ret.parsed_data, name)
                table == args.timestamps_to_timepoints
                Entries == 1..Len(args.var_dict)
            IN  ~value.is_none =>
                /\ Len(value.df.index) = Len(table)
                /\ \A t \in 1..Len(table) :
                    /\ value.df.index[t] = table[t].timestamp
                    /\ \A j \in Entries :
                        \A P \in EntryParams(name, args.var_dict[j].k) :
                            args.var_dict[j].k = VariableKey(name, P, table[t].timepoint) =>
                                \E c \in 1..Len(value.df.columns) :
                                    /\ value.df.columns[c] = TupleLabel(<<args.value_name, P>>)
                                    /\ value.df.values[t][c] = ValueCell(args.var_dict[j].v)
                /\ \A c \in 1..Len(value.df.columns) :
                    \E j \in Entries, tp \in 1..MaxTimepoints :
                        \E P \in EntryParams(name, args.var_dict[j].k) :
                            /\ value.df.columns[c] = TupleLabel(<<args.value_name, P>>)
                            /\ args.var_dict[j].k = VariableKey(name, P, tp)

(***************************************************************************)
(* profiles_to_switch.py: build_timeseries. The mapping of the timestamps  *)
(* is a sequence of rows [timestamp, timepoint]; the table returned has    *)
(* one row per timeseries, sorted by TIMESERIES, whose ts_scale_to_period  *)
(* is a float.                                                             *)
(***************************************************************************)
MaxTimestamps == 3

\* The elements of a set of integers in increasing order
\* (groupby sorts its keys).
RECURSIVE SortedKeys(_)
SortedKeys(S) ==
    IF S = {} THEN <<>>
    ELSE LET least == CHOOSE a \in S : \A b \in S : a <= b
         IN  <<least>> \o SortedKeys(S \ {least})

\* timepoints.groupby("timeseries").first(): the first row of timeseries s.
FirstOfTimeseries(timepoints, s) ==
    timepoints[CHOOSE i \in 1..Len(timepoints) :
        /\ timepoints[i].timeseries = s
        /\ \A j \in 1..(i - 1) : timepoints[j].timeseries # s]

\* timepoints.value_counts("timeseries") at s.
NumTps(timepoints, s) ==
    Cardinality({i \in 1..Len(timepoints) : timepoints[i].timeseries = s})

\* timestamp_to_timepoints.value_counts(): the timepoints that some
\* timestamp maps to, and how many map to each.
MappedTimepoints(timestamp_to_timepoints) ==
    {timestamp_to_timepoints[t].timepoint : t \in 1..Len(timestamp_to_timepoints)}
ValueCount(timestamp_to_timepoints, tp) ==
    Cardinality({t \in 1..Len(timestamp_to_timepoints) :
                    timestamp_to_timepoints[t].timepoint = tp})

\* .groupby(timepoints.timeseries).sum() at s: the counts of the mapped
\* timepoints whose row of the timepoints table is in s. A timeseries with
\* no mapped timepoint has no entry, and so NaN once aligned with the table.
Hours(timepoints, timestamp_to_timepoints, s) ==
    LET of_s == {tp \in MappedTimepoints(timestamp_to_timepoints) :
                    \E i \in 1..Len(timepoints) :
                        timepoints[i].timepoint_id = tp /\ timepoints[i].timeseries = s}
    IN  IF of_s = {} THEN NaN
        ELSE Finite(RatSum([t \in 1..Len(timestamp_to_timepoints) |->
                                IF timestamp_to_timepoints[t].timepoint \in of_s
                                THEN Q(1) ELSE Q(0)],
                           1..Len(timestamp_to_timepoints)))

build_timeseries(timepoints, timestamp_to_timepoints) ==
    LET keys == SortedKeys(UniqueTimeseries(timepoints))
    IN  [k \in 1..Len(keys) |->
            LET first == FirstOfTimeseries(timepoints, keys[k])
                ts_num_tps == NumTps(timepoints, keys[k])
            IN  [TIMESERIES |-> keys[k],
                 ts_period |-> first.ts_period,
                 ts_duration_of_tp |-> first.ts_duration_of_tp,
                 ts_num_tps |-> ts_num_tps,
                 ts_scale_to_period |->
                    FloatOver(Hours(timepoints, timestamp_to_timepoints, keys[k]),
                              Q(first.ts_duration_of_tp * ts_num_tps))]]

CallBuildTimeseries ==
    /\ call = "none"
    /\ call' = "build_timeseries"
    /\ ret' = build_timeseries(args.timepoints, args.timestamp_to_timepoints)
    /\ UNCHANGED <<switch_plant_ids, ref_last_original_plant_id, plant_ids,
                   switch_branch_ids, grid, build_gen, build_tx, build_storage_energy, args, fs>>

\* Timepoints tables that pass _check_timepoints: timeseries 0 lies in 2030
\* with a duration of one or two hours, timeseries 1 in 2040 with two hours.
\* Every timestamp maps to a timepoint of the table.
ConsistentTimepointTables ==
    {[i \in 1..Len(s) |->
        [timepoint_id |-> i, timestamp |-> i, timeseries |-> s[i],
         ts_period |-> IF s[i] = 0 THEN 2030 ELSE 2040,
         ts_duration_of_tp |-> IF s[i] = 0 THEN d ELSE 2]] :
        s \in SeqsUpTo(0..1, MaxTimepoints) \ {<<>>}, d \in 1..2}
TimestampMaps(n) ==
    {[t \in 1..Len(m) |-> [timestamp |-> t, timepoint |-> m[t]]] :
        m \in SeqsUpTo(1..n, MaxTimestamps) \ {<<>>}}
InitTimeseries ==
    /\ call = "none"
    /\ switch_plant_ids = <<>>
    /\ ref_last_original_plant_id = None
    /\ plant_ids = <<>>
    /\ switch_branch_ids = <<>>
    /\ NoTables
    /\ ret = <<>>
    /\ fs = NoFiles
    /\ \E timepoints \in ConsistentTimepointTables :
        \E timestamp_to_timepoints \in TimestampMaps(Len(timepoints)) :
            args = [timepoints |-> timepoints,
                    timestamp_to_timepoints |-> timestamp_to_timepoints]
NextTimeseries == CallBuildTimeseries
SpecTimeseries == InitTimeseries /\ [][NextTimeseries]_vars

\* The number of timestamps whose timepoint belongs to timeseries s.
TimestampsOf(s) ==
    Cardinality({t \in 1..Len(args.timestamp_to_timepoints) :
        \E i \in 1..Len(args.timepoints) :
            /\ args.timepoints[i].timepoint_id = args.timestamp_to_timepoints[t].timepoint
            /\ args.timepoints[i].timeseries = s})

\* C27: build_timeseries conserves hours. The table has one row for every
\* timeseries s of the timepoints table; its ts_num_tps is the number of
\* timepoints of s, and ts_scale_to_period * ts_duration_of_tp * ts_num_tps
\* is the number of timestamps whose timepoint belongs to s, 0 when there is
\* none, so that the products add up to the number of timestamps.
C27_TimeseriesConserveHours ==
    call = "build_timeseries" =>
        \A s \in UniqueTimeseries(args.timepoints) :
            \E k \in 1..Len(ret) :
                /\ ret[k].TIMESERIES = s
                /\ ret[k].ts_num_tps = NumTps(args.timepoints, s)
                /\ ret[k].ts_scale_to_period.kind = "finite"
                /\ RatMul(ret[k].ts_scale_to_period.value,
                          Q(ret[k].ts_duration_of_tp * ret[k].ts_num_tps))
                        = Q(TimestampsOf(s))

(***************************************************************************)
(* profiles_to_switch.py: build_variable_capacity_factors. gen_profiles is *)
(* the list of the frames of the resources, each [columns, values] with    *)
(* the plant ids as columns and one row of values per timestamp; the       *)
(* factors are floats.                                                     *)
(***************************************************************************)
\* pd.concat(gen_profiles.values(), axis=1)
RECURSIVE ConcatColumns(_, _)
ConcatColumns(gen_profiles, j) ==
    IF j > Len(gen_profiles) THEN <<>>
    ELSE [c \in 1..Len(gen_profiles[j].columns) |-> [frame |-> j, column |-> c]]
            \o ConcatColumns(gen_profiles, j + 1)
\* plant.loc[id, "Pmax"]
PmaxOf(plant, id) ==
    plant[CHOOSE i \in 1..Len(plant) : plant[i].plant_id = id].Pmax

\* (all_profiles / capacities).fillna(0) at timestamp t and column c: 0 / 0 is
\* filled with 0, a positive value over a capacity of 0 stays infinite.
NormalizedProfile(gen_profiles, plant, t, c) ==
    LET frame == gen_profiles[c.frame]
    IN  fillna(FloatDiv(Q(frame.values[t][c.column]),
                        PmaxOf(plant, frame.columns[c.column])), Q(0))

\* groupby("timepoint").mean() at timepoint tp and column c. The sum of a
\* group that holds an infinite value is infinite; a build of pandas that
\* sums with a compensation term (compensated) makes it NaN as soon as
\* another value follows the infinite one in the group.
TimepointMean(gen_profiles, plant, timestamp_to_timepoints, tp, c, compensated) ==
    LET rows == {t \in 1..Len(timestamp_to_timepoints) :
                    timestamp_to_timepoints[t].timepoint = tp}
        normalized == [t \in 1..Len(timestamp_to_timepoints) |->
                        NormalizedProfile(gen_profiles, plant, t, c)]
    IN  IF \E t \in rows : normalized[t].kind = "inf"
        THEN IF compensated /\ \E t, u \in rows : t < u /\ normalized[t].kind = "inf"
             THEN NaN ELSE Inf
        ELSE Finite(RatDiv(RatSum([t \in 1..Len(normalized) |-> normalized[t].value], rows),
                           Q(Cardinality(rows))))

\* make_indices: the tags "g<id>" and "g<id>i" of a list of plant ids.
make_indices(ids) ==
    [original |-> [j \in 1..Len(ids) |-> ExistingTag(ids[j])],
     hypothetical |-> [j \in 1..Len(ids) |-> ExpansionTag(ids[j])]]

\* The rows of the table after melt(): for every column, in order, one row
\* per timepoint in increasing order.
build_variable_capacity_factors(gen_profiles, plant, timestamp_to_timepoints, compensated) ==
    LET columns == ConcatColumns(gen_profiles, 1)
        timepoints == SortedKeys(MappedTimepoints(timestamp_to_timepoints))
        n == Len(timepoints)
        melted == [k \in 1..(Len(columns) * n) |->
                    LET c == columns[((k - 1) \div n) + 1]
                        tp == timepoints[((k - 1) % n) + 1]
                    IN  [GENERATION_PROJECT |-> gen_profiles[c.frame].columns[c.column],
                         timepoint |-> tp,
                         gen_max_capacity_factor |->
                            TimepointMean(gen_profiles, plant, timestamp_to_timepoints, tp, c,
                                          compensated)]]
        indices == make_indices([k \in 1..Len(melted) |-> melted[k].GENERATION_PROJECT])
        all_plant_indices == indices.original \o indices.hypothetical
        doubled == melted \o melted
    IN  [k \in 1..Len(doubled) |->
            [doubled[k] EXCEPT !.GENERATION_PROJECT = all_plant_indices[k]]]

CallBuildVariableCapacityFactors ==
    /\ call = "none"
    /\ call' = "build_variable_capacity_factors"
    /\ \E compensated \in BOOLEAN :
        ret' = build_variable_capacity_factors(args.gen_profiles, args.plant,
                                               args.timestamp_to_timepoints, compensated)
    /\ UNCHANGED <<switch_plant_ids, ref_last_original_plant_id, plant_ids,
                   switch_branch_ids, grid, build_gen, build_tx, build_storage_energy, args, fs>>

\* One profile for plant 7, or one for plant 7 and one for plant 4; every
\* hourly value is 0 or 5 and every Pmax 0 or 10; the timestamps map to the
\* timepoints 1 and 2.
ProfileFrames(ids, m) ==
    {[j \in 1..Len(ids) |->
        [columns |-> <<ids[j]>>, values |-> [t \in 1..m |-> <<v[j][t]>>]]] :
        v \in [1..Len(ids) -> [1..m -> {0, 5}]]}
ProfilePlants(ids) ==
    {[j \in 1..Len(ids) |-> [plant_id |-> ids[j], Pmax |-> Q(p[j])]] :
        p \in [1..Len(ids) -> {0, 10}]}
InitCapacityFactors ==
    /\ call = "none"
    /\ switch_plant_ids = <<>>
    /\ ref_last_original_plant_id = None
    /\ plant_ids = <<>>
    /\ switch_branch_ids = <<>>
    /\ NoTables
    /\ ret = <<>>
    /\ fs = NoFiles
    /\ \E ids \in {<<7>>, <<7, 4>>}, m \in 1..MaxTimestamps :
        \E gen_profiles \in ProfileFrames(ids, m), plant \in ProfilePlants(ids),
           tps \in [1..m -> 1..2] :
            args = [gen_profiles |-> gen_profiles, plant |-> plant,
                    timestamp_to_timepoints |->
                        [t \in 1..m |-> [timestamp |-> t, timepoint |-> tps[t]]]]
NextCapacityFactors == CallBuildVariableCapacityFactors
SpecCapacityFactors == InitCapacityFactors /\ [][NextCapacityFactors]_vars

\* C28: a capacity of zero gives the factor 0. Every row of the table of
\* build_variable_capacity_factors has a finite gen_max_capacity_factor, and
\* the rows of the tags "g<p>" and "g<p>i" of a plant p with Pmax = 0 hold
\* the factor 0 at every timepoint, whatever the hourly profile of p.
C28_ZeroCapacityGivesZeroFactor ==
    call = "build_variable_capacity_factors" =>
        \A k \in 1..Len(ret) :
            /\ ret[k].gen_max_capacity_factor.kind = "finite"
            /\ \A i \in 1..Len(args.plant) :
                (/\ RatZero(args.plant[i].Pmax)
                 /\ ret[k].GENERATION_PROJECT \in
                        {ExistingTag(args.plant[i].plant_id),
                         ExpansionTag(args.plant[i].plant_id)}) =>
                    ret[k].gen_max_capacity_factor = Finite(Q(0))

(***************************************************************************)
(* switch_extract.py: SwitchExtract.__init__ from the parsed results on.   *)
(* The plant map is decoded from the columns of the DispatchGen frame, the *)
(* grids of the years are built from the build tables, and the input       *)
(* profiles are reconstructed from variable_capacity_factors, a table of   *)
(* rows [GENERATION_PROJECT, timepoint, gen_max_capacity_factor], and from *)
(* loads, here the demand of the one zone per timepoint.                   *)
(***************************************************************************)
\* create_upgraded_grids as a dict: one entry [status, grid] per year of
\* build_tx, in the order of build_tx.year.unique().
AllGrids(g, bg, tx, bse) ==
    LET years == UniqueYears(tx, 1)
    IN  [j \in 1..Len(years) |->
            [k |-> years[j], v |-> UpgradedGrid(g, bg, tx, bse, years[j], 10 * j)]]

\* The plant ids of a grid with a type among types, in the order of the table.
RECURSIVE PlantsOfTypes(_, _, _)
PlantsOfTypes(plant, types, j) ==
    IF j > Len(plant) THEN <<>>
    ELSE (IF plant[j].type \in types THEN <<plant[j].plant_id>> ELSE <<>>)
            \o PlantsOfTypes(plant, types, j + 1)

\* reshaped_values: the columns are the plant ids that id_unmapping gives to
\* the tags of variable_capacity_factors, the rows its timepoints.
ReshapedColumns(plant_id_mapping, variable_capacity_factors) ==
    {plant_id_mapping[j].k : j \in {i \in 1..Len(plant_id_mapping) :
        \E r \in 1..Len(variable_capacity_factors) :
            variable_capacity_factors[r].GENERATION_PROJECT = plant_id_mapping[i].v}}
ReshapedValue(plant_id_mapping, variable_capacity_factors, tp, id) ==
    variable_capacity_factors[CHOOSE r \in 1..Len(variable_capacity_factors) :
        /\ variable_capacity_factors[r].timepoint = tp
        /\ variable_capacity_factors[r].GENERATION_PROJECT
                = DictGet(plant_id_mapping, id)].gen_max_capacity_factor

\* resource_types[r]
resource_types(r) ==
    IF r = "hydro" THEN {"hydro"}
    ELSE IF r = "solar" THEN {"solar"} ELSE {"wind", "wind_offshore"}

\* grid.plant.Pmax.loc[ids]: for every id of ids, in order, the rows of the
\* table that carry the label, in the order of the table.
RECURSIVE RowsLabelled(_, _, _)
RowsLabelled(plant, id, i) ==
    IF i > Len(plant) THEN <<>>
    ELSE (IF plant[i].plant_id = id
          THEN <<[plant_id |-> id, Pmax |-> plant[i].Pmax]>> ELSE <<>>)
            \o RowsLabelled(plant, id, i + 1)
RECURSIVE PmaxLoc(_, _, _)
PmaxLoc(plant, ids, j) ==
    IF j > Len(ids) THEN <<>>
    ELSE RowsLabelled(plant, ids[j], 1) \o PmaxLoc(plant, ids, j + 1)

\* frame[ids] on columns that may repeat a label: for every id of ids, in
\* order, the positions of the columns that carry it.
RECURSIVE ColumnsLabelled(_, _, _)
ColumnsLabelled(columns, ids, j) ==
    IF j > Len(ids) THEN <<>>
    ELSE LET hits == {c \in 1..Len(columns) : columns[c].plant_id = ids[j]}
         IN  [k \in 1..Cardinality(hits) |->
                CHOOSE c \in hits : Cardinality({d \in hits : d < c}) = k - 1]
             \o ColumnsLabelled(columns, ids, j + 1)
Increasing(ids) == \A i \in 1..(Len(ids) - 1) : ids[i] <= ids[i + 1]

\* One pass of the loop over the grids, for the resource r: [status,
\* columns, values]. Selecting a built variable plant that is no column of
\* the reshaped values is a KeyError. multiply() aligns the columns of the
\* selected frame, the built variable plants, with the index of
\* Pmax.loc[...], which holds a label once for every row of the plant table
\* that carries it. Where the two are equal nothing is reindexed. Where a
\* label of a variable plant is carried by another row as well: two variable
\* rows make the columns of the frame repeat the label, and reindexing them
\* raises ValueError (cannot reindex from a duplicate axis); with the
\* columns distinct and increasing the outer join is the index of the
\* capacities, the frame gets one column per capacity and the capacities are
\* kept as they are; with the columns not increasing the join is sorted, the
\* capacities must be reindexed and that raises ValueError.
\* input_profiles[r][year] has the columns of the unnormalized profiles that
\* carry the label of a plant of the resource, and for every timestamp the
\* factor of its timepoint times the capacity of the column.
UnnormalizedProfiles(plant_id_mapping, variable_capacity_factors, timestamps_to_timepoints, g, r) ==
    LET built_variable_plants == PlantsOfTypes(g.plant, variable_types, 1)
        capacities == PmaxLoc(g.plant, built_variable_plants, 1)
        picked == ColumnsLabelled(capacities,
                                  PlantsOfTypes(g.plant, resource_types(r), 1), 1)
        reshaped == ReshapedColumns(plant_id_mapping, variable_capacity_factors)
    IN  IF \E c \in 1..Len(built_variable_plants) : built_variable_plants[c] \notin reshaped
        THEN [status |-> "KeyError", columns |-> <<>>, values |-> <<>>]
        ELSE IF /\ Len(capacities) # Len(built_variable_plants)
                /\ (~Distinct(built_variable_plants) \/ ~Increasing(built_variable_plants))
        THEN [status |-> "ValueError", columns |-> <<>>, values |-> <<>>]
        ELSE [status |-> "ok",
              columns |-> [c \in 1..Len(picked) |-> capacities[picked[c]].plant_id],
              values |-> [t \in 1..Len(timestamps_to_timepoints) |->
                [c \in 1..Len(picked) |->
                    RatMul(ReshapedValue(plant_id_mapping, variable_capacity_factors,
                                         timestamps_to_timepoints[t].timepoint,
                                         capacities[picked[c]].plant_id),
                           capacities[picked[c]].Pmax)]]]

\* id_unmapping[tag]: the plant ids that plant_id_mapping gives the tag; the
\* empty set stands for the NaN of a tag that the mapping does not hold.
UnmappedId(plant_id_mapping, tag) ==
    {plant_id_mapping[j].k : j \in {i \in 1..Len(plant_id_mapping) :
                                        plant_id_mapping[i].v = tag}}

\* _reconstruct_input_profiles: [status, input_profiles]. With no grid the
\* sample grid is an IndexError. squeeze() makes a scalar of a frame of one
\* row and one column, and unstack() on the scalar is an AttributeError: for
\* loads of a single timepoint (and zone) and for a table of a single
\* capacity factor. A timepoint of the table of timestamps that the loads or
\* the capacity factors do not hold is a KeyError of .loc. Two capacity
\* factors for the same timepoint and plant make unstack() raise ValueError
\* (Index contains duplicate entries, cannot reshape). The first pass of
\* the loop that raises ends the call, and no profile is kept.
_reconstruct_input_profiles(plant_id_mapping, variable_capacity_factors, timestamps_to_timepoints, loads, grids) ==
    LET timepoints == {timestamps_to_timepoints[t].timepoint :
                        t \in 1..Len(timestamps_to_timepoints)}
        full_time_zone_loads ==
            [t \in 1..Len(timestamps_to_timepoints) |->
                DictGet(loads, timestamps_to_timepoints[t].timepoint)]
        pass(j, r) ==
            UnnormalizedProfiles(plant_id_mapping, variable_capacity_factors,
                                 timestamps_to_timepoints, grids[j].v.grid, r)
        by_year(r) ==
            [j \in 1..Len(grids) |->
                [k |-> grids[j].k,
                 v |-> [columns |-> pass(j, r).columns, values |-> pass(j, r).values]]]
        raised == {j \in 1..Len(grids) : pass(j, "hydro").status # "ok"}
    IN  IF grids = <<>> THEN [status |-> "IndexError", input_profiles |-> <<>>]
        ELSE IF Len(loads) = 1 THEN [status |-> "AttributeError", input_profiles |-> <<>>]
        ELSE IF \E tp \in timepoints : ~DictHas(loads, tp)
        THEN [status |-> "KeyError", input_profiles |-> <<>>]
        \* GENERATION_PROJECT.map(id_unmapping): the index of id_unmapping, the
        \* tags of the mapping, must be unique
        ELSE IF \E i, j \in 1..Len(plant_id_mapping) :
                    i # j /\ plant_id_mapping[i].v = plant_id_mapping[j].v
        THEN [status |-> "InvalidIndexError", input_profiles |-> <<>>]
        ELSE IF Len(variable_capacity_factors) = 1
        THEN [status |-> "AttributeError", input_profiles |-> <<>>]
        \* unstack(): no two rows for the same (timepoint, plant_id)
        ELSE IF \E i, j \in 1..Len(variable_capacity_factors) :
                    /\ i # j
                    /\ variable_capacity_factors[i].timepoint
                            = variable_capacity_factors[j].timepoint
                    /\ UnmappedId(plant_id_mapping,
                                  variable_capacity_factors[i].GENERATION_PROJECT)
                        = UnmappedId(plant_id_mapping,
                                     variable_capacity_factors[j].GENERATION_PROJECT)
        THEN [status |-> "ValueError", input_profiles |-> <<>>]
        ELSE IF \E tp \in timepoints :
                    \A k \in 1..Len(variable_capacity_factors) :
                        variable_capacity_factors[k].timepoint # tp
        THEN [status |-> "KeyError", input_profiles |-> <<>>]
        ELSE IF raised # {}
        THEN [status |-> pass(CHOOSE j \in raised : \A i \in raised : j <= i,
                              "hydro").status,
              input_profiles |-> <<>>]
        ELSE [status |-> "ok",
              input_profiles |->
                [demand |-> [j \in 1..Len(grids) |->
                                [k |-> grids[j].k, v |-> full_time_zone_loads]],
                 hydro |-> by_year("hydro"),
                 solar |-> by_year("solar"),
                 wind |-> by_year("wind")]]

\* SwitchExtract.__init__: [status, plant_id_mapping, grids, input_profiles];
\* the first exception ends the construction.
CallSwitchExtract ==
    /\ call = "none"
    /\ call' = "SwitchExtract"
    /\ \E mapping \in {recover_plant_indices(
                        UnstackedColumns({args.dispatch_tags[j] :
                                            j \in 1..Len(args.dispatch_tags)}), None)},
          grids \in {AllGrids(grid, build_gen, build_tx, build_storage_energy)} :
        IF mapping.status # "ok"
        THEN ret' = [status |-> mapping.status, plant_id_mapping |-> <<>>,
                     grids |-> <<>>, input_profiles |-> <<>>]
        ELSE IF \E j \in 1..Len(grids) : grids[j].v.status # "ok"
        THEN ret' = [status |-> grids[CHOOSE j \in 1..Len(grids) :
                                    /\ grids[j].v.status # "ok"
                                    /\ \A i \in 1..(j - 1) : grids[i].v.status = "ok"].v.status,
                     plant_id_mapping |-> mapping.plant,
                     grids |-> <<>>, input_profiles |-> <<>>]
        ELSE \E profiles \in {_reconstruct_input_profiles(
                                mapping.plant, args.variable_capacity_factors,
                                args.timestamps_to_timepoints, args.loads, grids)} :
                ret' = [status |-> profiles.status, plant_id_mapping |-> mapping.plant,
                        grids |-> [j \in 1..Len(grids) |->
                                    [k |-> grids[j].k, v |-> grids[j].v.grid]],
                        input_profiles |-> profiles.input_profiles]
    /\ UNCHANGED <<switch_plant_ids, ref_last_original_plant_id, plant_ids,
                   switch_branch_ids, grid, build_gen, build_tx, build_storage_energy, args, fs>>

\* A grid of MaxPlants plants, a solar plant and wind plants or a solar
\* plant and coal plants, with the ids 1, 2, ... or with ids whose order as
\* str is not their order as numbers; the solver decides in 2030 on the
\* expansion of every plant, with its entries in any order, and build_tx
\* names one or both years. The loads hold two timepoints or one, the
\* capacity factors every plant and timepoint, a single row, or a second
\* row for a plant and timepoint.
VariablePlantIds ==
    {[i \in 1..MaxPlants |-> i],
     [i \in 1..MaxPlants |-> IF i = MaxPlants THEN MaxPlantId ELSE i + 1]}
VariableGrid(ids, other) ==
    LET g == WithPlantIds(GridOf(Len(ids), <<0>>), ids)
    IN  [g EXCEPT !.plant = [i \in 1..Len(@) |->
            [@[i] EXCEPT !.type = IF i = 1 THEN "solar" ELSE other]]]
SolverGenRows(ids, caps) ==
    [j \in 1..(2 * Len(ids)) |->
        IF j <= Len(ids)
        THEN [year |-> 2019, gen_id |-> ExistingTag(ids[j]), capacity |-> 20 * j]
        ELSE [year |-> 2030, gen_id |-> ExpansionTag(ids[j - Len(ids)]),
              capacity |-> caps[j - Len(ids)]]]
EntryOrders(n) ==
    {f \in [1..n -> 1..n] : \A i, j \in 1..n : f[i] = f[j] => i = j}
SolverGenTables(ids) ==
    {[j \in 1..(2 * Len(ids)) |-> SolverGenRows(ids, caps)[f[j]]] :
        caps \in [1..Len(ids) -> {0, 50}], f \in EntryOrders(2 * Len(ids))}
\* The factors of plant i at timepoint tp, the same for its two tags.
FactorsOf(ids) ==
    [r \in 1..(4 * Len(ids)) |->
        LET i == ((r - 1) \div 4) + 1
            tp == (((r - 1) \div 2) % 2) + 1
        IN  [GENERATION_PROJECT |-> IF r % 2 = 1 THEN ExistingTag(ids[i])
                                    ELSE ExpansionTag(ids[i]),
             timepoint |-> tp,
             gen_max_capacity_factor |-> Rat(i + 2 * (tp - 1), 10)]]
InitSwitchExtract ==
    /\ call = "none"
    /\ switch_plant_ids = <<>>
    /\ ref_last_original_plant_id = None
    /\ plant_ids = <<>>
    /\ switch_branch_ids = <<>>
    /\ build_storage_energy = <<>>
    /\ ret = <<>>
    /\ fs = NoFiles
    /\ build_tx \in {<<[year |-> 2030, tx_id |-> AcTag(11), capacity |-> 30]>>,
                     <<[year |-> 2030, tx_id |-> AcTag(11), capacity |-> 30],
                       [year |-> 2040, tx_id |-> AcTag(11), capacity |-> 0]>>}
    /\ \E ids \in VariablePlantIds, other \in {"wind", "coal"} :
        /\ grid = VariableGrid(ids, other)
        /\ build_gen \in SolverGenTables(ids)
        /\ \E tps \in {<<1, 2>>, <<2, 1, 1>>}, short \in {"none", "loads", "factors", "twice"} :
            args = [dispatch_tags |-> [j \in 1..Len(build_gen) |-> build_gen[j].gen_id],
                    variable_capacity_factors |->
                        IF short = "factors" THEN SubSeq(FactorsOf(ids), 1, 1)
                        ELSE IF short = "twice"
                        THEN Append(FactorsOf(ids),
                                    [FactorsOf(ids)[1] EXCEPT
                                        !.gen_max_capacity_factor = Rat(9, 10)])
                        ELSE FactorsOf(ids),
                    timestamps_to_timepoints |->
                        [t \in 1..Len(tps) |-> [timestamp |-> t, timepoint |-> tps[t]]],
                    loads |-> IF short = "loads" THEN <<[k |-> 1, v |-> 100]>>
                              ELSE <<[k |-> 1, v |-> 100], [k |-> 2, v |-> 200]>>]
NextSwitchExtract == CallSwitchExtract
SpecSwitchExtract == InitSwitchExtract /\ [][NextSwitchExtract]_vars

\* The plant map that add_gen_upgrades_to_grid decodes from the gen_id
\* column of build_gen.
BuildGenPlantIds ==
    recover_plant_indices([j \in 1..Len(build_gen) |-> build_gen[j].gen_id], None).plant

\* C22: the synthesized plant ids agree across the components. Once the
\* results are extracted, the id that plant_id_mapping gives to an expansion
\* tag g<k>i is the id under which add_gen_upgrades_to_grid files it, for
\* plant ids of one and of two digits and every order of the solver's
\* entries.
C22_SynthesizedIdsAgree ==
    (call = "SwitchExtract" /\ ret.plant_id_mapping # <<>>) =>
        \A j \in 1..Len(build_gen) :
            IsExpansionTag(build_gen[j].gen_id) =>
                \A id \in DictKeys(BuildGenPlantIds) :
                    MapsTo(BuildGenPlantIds, id, build_gen[j].gen_id) =>
                        MapsTo(ret.plant_id_mapping, id, build_gen[j].gen_id)

\* The tag of plant p of an upgraded grid: "g<p>" for a plant of the original
\* grid, and for an added plant the expansion tag that the decoding of
\* build_gen files under p.
TagOfPlant(p) ==
    IF \E k \in 1..Len(grid.plant) : grid.plant[k].plant_id = p
    THEN ExistingTag(p)
    ELSE DictGet(BuildGenPlantIds, p)
\* The capacity factor stored for a tag at a timepoint.
StoredFactor(tag, tp) ==
    args.variable_capacity_factors[
        CHOOSE r \in 1..Len(args.variable_capacity_factors) :
            /\ args.variable_capacity_factors[r].GENERATION_PROJECT = tag
            /\ args.variable_capacity_factors[r].timepoint = tp].gen_max_capacity_factor
ProfilesOf(r) ==
    IF r = "hydro" THEN ret.input_profiles.hydro
    ELSE IF r = "solar" THEN ret.input_profiles.solar ELSE ret.input_profiles.wind

\* C21: the temporal reduction round trip. Once the results are extracted,
\* every resource has a profile for every year with a reconstructed grid;
\* in it every variable plant p of the resource in the year's grid has, at
\* every timestamp t, the capacity factor stored for the tag of p at the
\* timepoint of t times the Pmax of p in that grid; and the demand profile
\* is the same for every year.
C21_ProfilesRoundTrip ==
    (call = "SwitchExtract" /\ ret.status = "ok") =>
        \A j \in 1..Len(ret.grids) :
            LET year == ret.grids[j].k
                plant == ret.grids[j].v.plant
            IN  /\ DictHas(ret.input_profiles.demand, year)
                /\ DictGet(ret.input_profiles.demand, year)
                        = ret.input_profiles.demand[1].v
                /\ \A r \in {"hydro", "solar", "wind"} :
                    /\ DictHas(ProfilesOf(r), year)
                    /\ \A i \in 1..Len(plant) :
                        plant[i].type \in resource_types(r) =>
                            LET frame == DictGet(ProfilesOf(r), year)
                            IN  \E c \in 1..Len(frame.columns) :
                                /\ frame.columns[c] = plant[i].plant_id
                                /\ \A t \in 1..Len(args.timestamps_to_timepoints) :
                                    frame.values[t][c]
                                        = RatMul(StoredFactor(
                                                    TagOfPlant(plant[i].plant_id),
                                                    args.timestamps_to_timepoints[t].timepoint),
                                                 plant[i].Pmax)
====
